---- MODULE Spec2Model ----
(***************************************************************************)
(* Model of the twitter-tools archive cache of matteo1222/agent-skills:    *)
(* lib/cache.js (object cache, archive marker, downloadFile),              *)
(* lib/syndication.js (fetchTweetFromApi, formatTweet) and the two CLI     *)
(* entry points twitter-archive.js and twitter-tweet.js.                   *)
(*                                                                         *)
(* JavaScript values are tagged records [t |-> type, v |-> payload]; file  *)
(* contents are sequences of JSON tokens <<kind, payload>>, so that        *)
(* JSON.stringify and JSON.parse are real conversions.                     *)
(***************************************************************************)
EXTENDS Integers, Sequences, FiniteSets, TLC

(***************************************************************************)
(* JavaScript values                                                       *)
(***************************************************************************)
Undefined == [t |-> "undefined"]
JNull == [t |-> "null"]
JBool(b) == [t |-> "boolean", v |-> b]
JNum(n) == [t |-> "number", v |-> n]
JStr(s) == [t |-> "string", v |-> s]
JArr(s) == [t |-> "array", v |-> s]
\* an object is its list of <<key, value>> members in insertion order
JObj(m) == [t |-> "object", v |-> m]

\* o.k and o?.k on a value read from JSON: undefined when the member is missing
Prop(o, k) ==
  IF o.t = "object" /\ \E i \in 1..Len(o.v) : o.v[i][1] = k
  THEN o.v[CHOOSE i \in 1..Len(o.v) : o.v[i][1] = k][2]
  ELSE Undefined

\* JavaScript truthiness (ToBoolean)
Truthy(x) ==
  CASE x.t = "undefined" -> FALSE
    [] x.t = "null" -> FALSE
    [] x.t = "boolean" -> x.v
    [] x.t = "number" -> x.v # 0
    [] x.t = "string" -> x.v # ""
    [] OTHER -> TRUE

\* a || b
OrElse(a, b) == IF Truthy(a) THEN a ELSE b

(***************************************************************************)
(* JSON.stringify: objects drop members whose value is undefined, arrays   *)
(* write undefined elements as null.  Indentation is white space and is    *)
(* not part of the token sequence.                                         *)
(***************************************************************************)
Tok(k, p) == <<k, p>>

RECURSIVE Stringify(_), StringifyElems(_, _), StringifyMembers(_, _, _)
Stringify(x) ==
  CASE x.t = "null" -> <<Tok("lit", "null")>>
    [] x.t = "undefined" -> <<Tok("lit", "null")>>
    [] x.t = "boolean" -> <<Tok("lit", IF x.v THEN "true" ELSE "false")>>
    [] x.t = "number" -> <<Tok("num", x.v)>>
    [] x.t = "string" -> <<Tok("str", x.v)>>
    [] x.t = "array" -> <<Tok("p", "[")>> \o StringifyElems(x.v, 1) \o <<Tok("p", "]")>>
    [] x.t = "object" -> <<Tok("p", "{")>> \o StringifyMembers(x.v, 1, TRUE) \o <<Tok("p", "}")>>

StringifyElems(s, i) ==
  IF i > Len(s) THEN << >>
  ELSE (IF i > 1 THEN <<Tok("p", ",")>> ELSE << >>)
       \o Stringify(s[i]) \o StringifyElems(s, i + 1)

StringifyMembers(m, i, first) ==
  IF i > Len(m) THEN << >>
  ELSE IF m[i][2].t = "undefined" THEN StringifyMembers(m, i + 1, first)
  ELSE (IF first THEN << >> ELSE <<Tok("p", ",")>>)
       \o <<Tok("str", m[i][1]), Tok("p", ":")>> \o Stringify(m[i][2])
       \o StringifyMembers(m, i + 1, FALSE)

(***************************************************************************)
(* JSON.parse: recursive descent over the tokens; throws (ok = FALSE) on   *)
(* anything that is not exactly one JSON value                             *)
(***************************************************************************)
ParseFail == [ok |-> FALSE, val |-> Undefined, next |-> 0]
ParseOk(x, n) == [ok |-> TRUE, val |-> x, next |-> n]
IsPunct(toks, i, c) == i <= Len(toks) /\ toks[i][1] = "p" /\ toks[i][2] = c

\* a repeated key keeps its first position and takes the last value
PutMember(m, k, x) ==
  IF \E i \in 1..Len(m) : m[i][1] = k
  THEN [i \in 1..Len(m) |-> IF m[i][1] = k THEN <<k, x>> ELSE m[i]]
  ELSE Append(m, <<k, x>>)

RECURSIVE ParseValue(_, _), ParseElems(_, _, _), ParseMembers(_, _, _)
ParseValue(toks, i) ==
  IF i > Len(toks) THEN ParseFail
  ELSE CASE toks[i][1] = "num" -> ParseOk(JNum(toks[i][2]), i + 1)
         [] toks[i][1] = "str" -> ParseOk(JStr(toks[i][2]), i + 1)
         [] toks[i][1] = "lit" ->
              ParseOk(CASE toks[i][2] = "true" -> JBool(TRUE)
                        [] toks[i][2] = "false" -> JBool(FALSE)
                        [] OTHER -> JNull, i + 1)
         [] IsPunct(toks, i, "[") ->
              IF IsPunct(toks, i + 1, "]") THEN ParseOk(JArr(<< >>), i + 2)
              ELSE ParseElems(toks, i + 1, << >>)
         [] IsPunct(toks, i, "{") ->
              IF IsPunct(toks, i + 1, "}") THEN ParseOk(JObj(<< >>), i + 2)
              ELSE ParseMembers(toks, i + 1, << >>)
         [] OTHER -> ParseFail

ParseElems(toks, i, acc) ==
  LET r == ParseValue(toks, i) IN
  IF ~r.ok THEN ParseFail
  ELSE IF IsPunct(toks, r.next, ",") THEN ParseElems(toks, r.next + 1, Append(acc, r.val))
  ELSE IF IsPunct(toks, r.next, "]") THEN ParseOk(JArr(Append(acc, r.val)), r.next + 1)
  ELSE ParseFail

ParseMembers(toks, i, acc) ==
  IF ~(i + 1 <= Len(toks) /\ toks[i][1] = "str" /\ IsPunct(toks, i + 1, ":")) THEN ParseFail
  ELSE LET r == ParseValue(toks, i + 2) IN
       IF ~r.ok THEN ParseFail
       ELSE IF IsPunct(toks, r.next, ",")
            THEN ParseMembers(toks, r.next + 1, PutMember(acc, toks[i][2], r.val))
       ELSE IF IsPunct(toks, r.next, "}")
            THEN ParseOk(JObj(PutMember(acc, toks[i][2], r.val)), r.next + 1)
       ELSE ParseFail

\* JSON.parse(text): [ok, val]; ok = FALSE is the SyntaxError
JsonParse(toks) ==
  LET r == ParseValue(toks, 1) IN
  IF r.ok /\ r.next = Len(toks) + 1 THEN [ok |-> TRUE, val |-> r.val]
  ELSE [ok |-> FALSE, val |-> Undefined]

(***************************************************************************)
(* State                                                                   *)
(***************************************************************************)
VARIABLES
  fs,       \* the files on disk: path |-> content (a token sequence)
  dirs,     \* the directories that exist
  proc,     \* the CLI processes: position, arguments and locals of main()
  prev,     \* the run that ended before the current one started
  clock,    \* the system clock read by new Date()
  shadow,   \* cache calls: per id, what the last put not undone by evict stored
  lastOp,   \* cache calls: the last call and what it returned
  prevOp,   \* cache calls: the call before the last
  pool,     \* cache calls: the document the callers put
  vm,         \* gondolin: the closure variable vm (0 is null, else the VM)
  vmStarting, \* gondolin: the closure variable vmStarting (0 is null, else the promise)
  creations,  \* gondolin: per VM.create call, the state of its promise
  vmOpen,     \* gondolin: the VMs that were created and not closed
  closing,    \* gondolin: the VM whose close() the shutdown handler awaits (0: none)
  callers,    \* gondolin: the callbacks that call ensureVm
  session     \* gondolin: what happened since session_shutdown last fired

extVars == <<vm, vmStarting, creations, vmOpen, closing, callers, session>>
vars == <<fs, dirs, proc, prev, clock, shadow, lastOp, prevOp, pool, extVars>>
cliVars == <<fs, dirs, proc, prev, clock>>
callVars == <<shadow, lastOp, prevOp, pool, extVars>>

TweetIds == {"42", "123"}
\* the ids given on the command line
CliIds == {"42"}

ProcIds == {1}

\* pi-extensions/gondolin: the extension after its factory function ran
MaxCreates == 2
CallerIds == {1, 2, 3}
IdleCaller == [pc |-> "idle", kind |-> "", on |-> 0, got |-> 0]
NoSession == [creates |-> 0, shutdown |-> "none", callsSince |-> FALSE]
ExtIdle ==
  /\ vm = 0
  /\ vmStarting = 0
  /\ creations = [k \in 1..MaxCreates |-> "none"]
  /\ vmOpen = {}
  /\ closing = 0
  /\ callers = [c \in CallerIds |-> IdleCaller]
  /\ session = NoSession

\* a process that has not been started: the locals of main() before line 53
IdleProc ==
  [pc |-> "idle", cmd |-> "", tweetId |-> "", customDir |-> "", force |-> FALSE, raw |-> FALSE,
   tweet |-> Undefined, formatted |-> Undefined, archiveDir |-> "",
   mediaFiles |-> << >>, mediaIndex |-> 0, k |-> 0, metadata |-> Undefined,
   stdout |-> << >>, stderr |-> << >>, exit |-> -1,
   net |-> << >>, writes |-> << >>, marker0 |-> FALSE, slot0 |-> "absent",
   wire |-> {}]

\* what is remembered of a run once the next one starts: how it ended and,
\* of an archive that succeeded, its requests and its printed result
Summary(pr) ==
  [cmd |-> pr.cmd, tweetId |-> pr.tweetId, force |-> pr.force, exit |-> pr.exit,
   net |-> IF pr.cmd = "archive" /\ pr.exit = 0 THEN pr.net ELSE << >>,
   stdout |-> IF pr.cmd = "archive" /\ pr.exit = 0 THEN pr.stdout ELSE << >>,
   marker0 |-> pr.cmd = "archive" /\ pr.exit = 0 /\ pr.marker0,
   slot0 |-> IF pr.cmd = "archive" /\ pr.exit = 0 THEN pr.slot0 ELSE "absent"]

\* a thrown exception, as the value an operator hands to its caller
Throw(msg) == [t |-> "throw", v |-> msg]
IsThrow(x) == x.t = "throw"

(***************************************************************************)
(* fs and path of node                                                     *)
(***************************************************************************)
PathJoin(a, b) == a \o "/" \o b
ExistsSync(f, p) == p \in DOMAIN f
WriteFileSync(f, p, data) == (p :> data) @@ f
UnlinkSync(f, p) == [q \in (DOMAIN f) \ {p} |-> f[q]]
NoFiles == [q \in {} |-> << >>]

(***************************************************************************)
(* lib/cache.js                                                            *)
(***************************************************************************)
CACHE_DIR == "~/.cache/twitter-tools"

getCacheDir(subdir) == IF subdir # "" THEN PathJoin(CACHE_DIR, subdir) ELSE CACHE_DIR

\* mutant: every id shares one slot
TweetCachePath_Shared(tweetId) == PathJoin(getCacheDir("tweets"), "tweet.json")

\* the path of the object cache slot of an id
TweetCachePath(tweetId) == PathJoin(getCacheDir("tweets"), tweetId \o ".json")

\* mutant: the SyntaxError of JSON.parse escapes
getCachedTweet_Throws(f, tweetId) ==
  IF ExistsSync(f, TweetCachePath(tweetId))
  THEN LET r == JsonParse(f[TweetCachePath(tweetId)]) IN
       IF r.ok THEN r.val ELSE Throw("Unexpected end of JSON input")
  ELSE JNull

\* parsed document, or null when the slot is missing or does not parse
getCachedTweet(f, tweetId) ==
  LET cachePath == TweetCachePath(tweetId) IN
  IF ExistsSync(f, cachePath)
  THEN LET r == JsonParse(f[cachePath]) IN IF r.ok THEN r.val ELSE JNull
  ELSE JNull

\* what a reader of the slot finds: nothing, text that parses, text that does not
SlotState(f, tweetId) ==
  IF ~ExistsSync(f, TweetCachePath(tweetId)) THEN "absent"
  ELSE IF JsonParse(f[TweetCachePath(tweetId)]).ok THEN "ok" ELSE "corrupt"

\* mutant: an existing slot is kept
cacheTweet_KeepExisting(f, tweetId, data) ==
  IF ExistsSync(f, PathJoin(getCacheDir("tweets"), tweetId \o ".json")) THEN f
  ELSE WriteFileSync(f, PathJoin(getCacheDir("tweets"), tweetId \o ".json"), Stringify(data))

\* the files after cacheTweet(tweetId, data)
cacheTweet(f, tweetId, data) == WriteFileSync(f, TweetCachePath(tweetId), Stringify(data))

getArchiveDir(tweetId) == PathJoin(getCacheDir("archives"), tweetId)

MarkerPath(tweetId) == PathJoin(getArchiveDir(tweetId), "metadata.json")

\* mutant: the raw document has to be there as well
isArchived_NeedsTweetJson(f, tweetId) ==
  ExistsSync(f, MarkerPath(tweetId)) /\ ExistsSync(f, PathJoin(getArchiveDir(tweetId), "tweet.json"))

isArchived(f, tweetId) == ExistsSync(f, MarkerPath(tweetId))

getArchiveMetadata(f, tweetId) ==
  LET metadataPath == MarkerPath(tweetId) IN
  IF ExistsSync(f, metadataPath)
  THEN LET r == JsonParse(f[metadataPath]) IN IF r.ok THEN r.val ELSE JNull
  ELSE JNull

\* the files after saveArchiveMetadata(tweetId, metadata)
saveArchiveMetadata(f, tweetId, metadata) ==
  WriteFileSync(f, MarkerPath(tweetId), Stringify(metadata))

\* the files after clearTweetCache(tweetId)
clearTweetCache(f, tweetId) ==
  LET cachePath == TweetCachePath(tweetId) IN
  IF ExistsSync(f, cachePath) THEN UnlinkSync(f, cachePath) ELSE f

(***************************************************************************)
(* Direct calls of the object cache: put = cacheTweet, get =               *)
(* getCachedTweet, evict = clearTweetCache, by a caller that holds JSON    *)
(* documents                                                               *)
(***************************************************************************)
MaxElems == 2

SeqsUpTo(S, n) == UNION {[1..k -> S] : k \in 0..n}
DistinctKeys(m) == \A i, j \in 1..Len(m) : i # j => m[i][1] # m[j][1]

JAtoms == {JNull, JBool(TRUE), JNum(7), JStr("a")}
JLevel1 ==
  {JArr(s) : s \in SeqsUpTo(JAtoms, MaxElems)}
  \cup {JObj(m) : m \in {n \in SeqsUpTo({"a", "b"} \X JAtoms, MaxElems) : DistinctKeys(n)}}
\* the JSON documents a caller puts: atoms, flat containers, containers of containers
JDocs ==
  JAtoms \cup JLevel1
  \cup {JArr(<<x>>) : x \in JLevel1}
  \cup {JObj(<<<<"k", x>>>>) : x \in JLevel1}

\* a second document, to tell an overwrite from a kept value
OtherDoc == JObj(<<<<"id_str", JStr("42")>>, <<"text", JStr("hello")>>>>)

NoOp == [op |-> "none", id |-> "", arg |-> Undefined, ret |-> Undefined]
NoShadow == [has |-> FALSE, doc |-> Undefined]

CachePut(id, doc) ==
  /\ fs' = cacheTweet(fs, id, doc)
  /\ dirs' = dirs \cup {CACHE_DIR, getCacheDir("tweets")}
  /\ shadow' = [shadow EXCEPT ![id] = [has |-> TRUE, doc |-> doc]]
  /\ prevOp' = lastOp
  /\ lastOp' = [op |-> "put", id |-> id, arg |-> doc, ret |-> Undefined]
  /\ UNCHANGED <<proc, prev, clock, pool, extVars>>

CacheGet(id) ==
  /\ prevOp' = lastOp
  /\ lastOp' = [op |-> "get", id |-> id, arg |-> Undefined, ret |-> getCachedTweet(fs, id)]
  /\ UNCHANGED <<fs, dirs, proc, prev, clock, shadow, pool, extVars>>

CacheEvict(id) ==
  /\ fs' = clearTweetCache(fs, id)
  /\ shadow' = [shadow EXCEPT ![id] = NoShadow]
  /\ prevOp' = lastOp
  /\ lastOp' = [op |-> "evict", id |-> id, arg |-> Undefined, ret |-> Undefined]
  /\ UNCHANGED <<dirs, proc, prev, clock, pool, extVars>>

InitCache ==
  /\ fs = NoFiles
  /\ dirs = {}
  /\ proc = [p \in ProcIds |-> IdleProc]
  /\ prev = [p \in ProcIds |-> Summary(IdleProc)]
  /\ clock = 0
  /\ shadow = [id \in TweetIds |-> NoShadow]
  /\ lastOp = NoOp
  /\ prevOp = NoOp
  /\ pool \in JDocs
  /\ ExtIdle

NextCache ==
  \/ \E id \in TweetIds : \E doc \in {pool, OtherDoc} : CachePut(id, doc)
  \/ \E id \in TweetIds : CacheGet(id)
  \/ \E id \in TweetIds : CacheEvict(id)

SpecCache == InitCache /\ [][NextCache]_vars

(***************************************************************************)
(* lib/syndication.js                                                      *)
(***************************************************************************)
\* `${x}` in a template literal
TemplateStr(x) ==
  CASE x.t = "string" -> x.v
    [] x.t = "number" -> ToString(x.v)
    [] x.t = "boolean" -> (IF x.v THEN "true" ELSE "false")
    [] x.t = "null" -> "null"
    [] OTHER -> "undefined"

\* HTTP responses; rejected = the connection failed and fetch() itself rejects
HttpResponse(status, statusText, body) ==
  [rejected |-> FALSE, status |-> status, statusText |-> statusText, body |-> body]
NetworkError == [rejected |-> TRUE, status |-> 0, statusText |-> "", body |-> << >>]
ResponseOk(r) == r.status >= 200 /\ r.status <= 299

\* the message of the SyntaxError that JSON.parse throws
SyntaxErrorMessage == "Unexpected token in JSON"

\* mutant: a 404 is reported like any other status
fetchTweetFromApi_No404(tweetId, response) ==
  IF response.rejected THEN Throw("fetch failed")
  ELSE IF ~ResponseOk(response)
  THEN Throw("Failed to fetch tweet: " \o ToString(response.status) \o " " \o response.statusText)
  ELSE IF response.body = << >> THEN Throw("Empty response for tweet: " \o tweetId)
  ELSE LET r == JsonParse(response.body) IN
       IF r.ok THEN r.val ELSE Throw(SyntaxErrorMessage)

\* the parsed document, or the exception fetchTweetFromApi lets escape
fetchTweetFromApi(tweetId, response) ==
  IF response.rejected THEN Throw("fetch failed")
  ELSE IF ~ResponseOk(response)
  THEN IF response.status = 404
       THEN Throw("Tweet not found: " \o tweetId)
       ELSE Throw("Failed to fetch tweet: " \o ToString(response.status) \o " " \o response.statusText)
  ELSE IF response.body = << >> THEN Throw("Empty response for tweet: " \o tweetId)
  ELSE LET r == JsonParse(response.body) IN
       IF r.ok THEN r.val ELSE Throw(SyntaxErrorMessage)

\* b.bitrate || 0
BitrateOf(v) == LET b == Prop(v, "bitrate") IN IF Truthy(b) THEN b.v ELSE 0

\* variants.filter(v => v[field] === 'video/mp4')
RECURSIVE FilterMp4(_, _)
FilterMp4(variants, field) ==
  IF variants = << >> THEN << >>
  ELSE (IF Prop(Head(variants), field) = JStr("video/mp4") THEN <<Head(variants)>> ELSE << >>)
       \o FilterMp4(Tail(variants), field)

\* mutant: ascending order, the lowest bitrate first
InsertByBitrate_Ascending(sorted, v) ==
  LET n == Cardinality({i \in 1..Len(sorted) : BitrateOf(sorted[i]) <= BitrateOf(v)}) IN
  SubSeq(sorted, 1, n) \o <<v>> \o SubSeq(sorted, n + 1, Len(sorted))

\* .sort((a, b) => (b.bitrate || 0) - (a.bitrate || 0)): stable, descending
InsertByBitrate(sorted, v) ==
  LET n == Cardinality({i \in 1..Len(sorted) : BitrateOf(sorted[i]) >= BitrateOf(v)}) IN
  SubSeq(sorted, 1, n) \o <<v>> \o SubSeq(sorted, n + 1, Len(sorted))

RECURSIVE SortByBitrate(_, _)
SortByBitrate(variants, acc) ==
  IF variants = << >> THEN acc
  ELSE SortByBitrate(Tail(variants), InsertByBitrate(acc, Head(variants)))

Mp4sOf(variants, field) == SortByBitrate(FilterMp4(variants, field), << >>)

\* the array behind x, empty when x is not an array
ArrayOf(x) == IF x.t = "array" THEN x.v ELSE << >>

\* mp4s.map(v => ({url: v[urlField], bitrate: v.bitrate}))
MapVariants(mp4s, urlField) ==
  JArr([i \in 1..Len(mp4s) |->
         JObj(<<<<"url", Prop(mp4s[i], urlField)>>, <<"bitrate", Prop(mp4s[i], "bitrate")>>>>)])

\* the loop over tweet.mediaDetails: the entries pushed to formatted.media
RECURSIVE FormatMediaDetails(_)
FormatMediaDetails(details) ==
  IF details = << >> THEN << >>
  ELSE LET media == Head(details)
           type == Prop(media, "type")
           variants == ArrayOf(OrElse(Prop(Prop(media, "video_info"), "variants"), JArr(<< >>)))
           mp4s == Mp4sOf(variants, "content_type")
       IN (IF type = JStr("photo")
           THEN <<JObj(<<<<"type", JStr("photo")>>, <<"url", Prop(media, "media_url_https")>>>>)>>
           ELSE IF type = JStr("video") \/ type = JStr("animated_gif")
           THEN <<JObj(<<<<"type", type>>,
                         <<"thumbnail", Prop(media, "media_url_https")>>,
                         <<"variants", MapVariants(mp4s, "url")>>>>)>>
           ELSE << >>)
          \o FormatMediaDetails(Tail(details))

IsVideoLike(m) == Prop(m, "type") = JStr("video") \/ Prop(m, "type") = JStr("animated_gif")

formatTweet(tweet) ==
  LET user == Prop(tweet, "user")
      details == IF Truthy(Prop(tweet, "mediaDetails")) THEN ArrayOf(Prop(tweet, "mediaDetails")) ELSE << >>
      fromDetails == FormatMediaDetails(details)
      video == Prop(tweet, "video")
      altVariants == Prop(video, "variants")
      altMp4s == IF Truthy(altVariants) THEN Mp4sOf(ArrayOf(altVariants), "type") ELSE << >>
      altPushed == Truthy(altVariants) /\ Len(altMp4s) > 0
                   /\ ~\E i \in 1..Len(fromDetails) : Prop(fromDetails[i], "type") = JStr("video")
      media == IF altPushed
               THEN Append(fromDetails,
                           JObj(<<<<"type", JStr("video")>>,
                                  <<"thumbnail", Prop(video, "poster")>>,
                                  <<"variants", MapVariants(altMp4s, "src")>>>>))
               ELSE fromDetails
      hasVideo == (\E i \in 1..Len(details) : IsVideoLike(details[i])) \/ Truthy(altVariants)
      quoted == Prop(tweet, "quoted_tweet")
  IN JObj(
      << <<"id", Prop(tweet, "id_str")>>,
         <<"url", JStr("https://twitter.com/" \o TemplateStr(Prop(user, "screen_name"))
                       \o "/status/" \o TemplateStr(Prop(tweet, "id_str")))>>,
         <<"text", Prop(tweet, "text")>>,
         <<"created_at", Prop(tweet, "created_at")>>,
         <<"user", JObj(<<<<"name", Prop(user, "name")>>,
                          <<"screen_name", Prop(user, "screen_name")>>,
                          <<"profile_image", Prop(user, "profile_image_url_https")>>,
                          <<"verified", OrElse(Prop(user, "verified"), Prop(user, "is_blue_verified"))>>>>)>>,
         <<"metrics", JObj(<<<<"favorites", Prop(tweet, "favorite_count")>>,
                             <<"replies", Prop(tweet, "reply_count")>>,
                             <<"quotes", Prop(tweet, "quote_count")>>>>)>>,
         <<"media", JArr(media)>>,
         <<"has_video", JBool(hasVideo)>> >>
      \o (IF Truthy(quoted)
          THEN <<<<"quoted_tweet", JObj(<<<<"id", Prop(quoted, "id_str")>>,
                                          <<"text", Prop(quoted, "text")>>,
                                          <<"user", Prop(Prop(quoted, "user"), "screen_name")>>>>)>>>>
          ELSE << >>)
      \o (IF Truthy(Prop(tweet, "in_reply_to_status_id_str"))
          THEN <<<<"reply_to", JObj(<<<<"tweet_id", Prop(tweet, "in_reply_to_status_id_str")>>,
                                      <<"user", Prop(tweet, "in_reply_to_screen_name")>>>>)>>>>
          ELSE << >>))

\* the loop of getBestVideoUrl over tweet.mediaDetails: the value of the
\* `return mp4s[0].url` it reaches, if it reaches one
RECURSIVE BestInDetails(_)
BestInDetails(details) ==
  IF details = << >> THEN [found |-> FALSE, url |-> Undefined]
  ELSE LET media == Head(details)
           variants == ArrayOf(OrElse(Prop(Prop(media, "video_info"), "variants"), JArr(<< >>)))
           mp4s == Mp4sOf(variants, "content_type")
       IN IF IsVideoLike(media) /\ Len(mp4s) > 0
          THEN [found |-> TRUE, url |-> Prop(mp4s[1], "url")]
          ELSE BestInDetails(Tail(details))

\* lib/syndication.js getBestVideoUrl
getBestVideoUrl(tweet) ==
  LET details == IF Truthy(Prop(tweet, "mediaDetails")) THEN ArrayOf(Prop(tweet, "mediaDetails")) ELSE << >>
      inDetails == BestInDetails(details)
      altVariants == Prop(Prop(tweet, "video"), "variants")
      altMp4s == IF Truthy(altVariants) THEN Mp4sOf(ArrayOf(altVariants), "type") ELSE << >>
  IN IF inDetails.found THEN inDetails.url
     ELSE IF Len(altMp4s) > 0 THEN Prop(altMp4s[1], "src")
     ELSE JNull

(***************************************************************************)
(* URLs.  new URL(url).pathname is the WHATWG parser's; it is given here   *)
(* as the table of the URLs the modelled servers use, each pathname as its *)
(* characters.  Anything else (undefined, a non-URL) makes new URL throw.  *)
(***************************************************************************)
PhotoPng == "https://t.co/A.png?name=large"
PhotoBare == "https://t.co/b.1/B?format=jpg"
ThumbJpg == "https://t.co/T.jpg"
PosterDot == "https://t.co/P."
VideoLo == "https://t.co/lo.mp4"
VideoHi == "https://t.co/hi.mp4?tag=12"
VideoGif == "https://t.co/gif.mp4"
Playlist == "https://t.co/pl.m3u8"

UrlPathname ==
  (PhotoPng :> <<"/", "A", ".", "p", "n", "g">>)
  @@ (PhotoBare :> <<"/", "b", ".", "1", "/", "B">>)
  @@ (ThumbJpg :> <<"/", "T", ".", "j", "p", "g">>)
  @@ (PosterDot :> <<"/", "P", ".">>)
  @@ (VideoLo :> <<"/", "l", "o", ".", "m", "p", "4">>)
  @@ (VideoHi :> <<"/", "h", "i", ".", "m", "p", "4">>)
  @@ (VideoGif :> <<"/", "g", "i", "f", ".", "m", "p", "4">>)
  @@ (Playlist :> <<"/", "p", "l", ".", "m", "3", "u", "8">>)

IsValidUrl(x) == x.t = "string" /\ x.v \in DOMAIN UrlPathname

RECURSIVE JoinChars(_)
JoinChars(cs) == IF cs = << >> THEN "" ELSE Head(cs) \o JoinChars(Tail(cs))

\* path.extname(pathname).slice(1): what follows the last dot of the last
\* path segment; empty when that segment has no dot or only a leading one
ExtName(cs) ==
  LET slashes == {i \in 1..Len(cs) : cs[i] = "/"}
      start == IF slashes = {} THEN 1 ELSE (CHOOSE i \in slashes : \A j \in slashes : j <= i) + 1
      dots == {i \in start..Len(cs) : cs[i] = "."}
      lastDot == IF dots = {} THEN 0 ELSE CHOOSE i \in dots : \A j \in dots : j <= i
  IN IF lastDot = 0 \/ lastDot = start THEN ""
     ELSE JoinChars(SubSeq(cs, lastDot + 1, Len(cs)))

\* twitter-archive.js getExtension: a string, or the TypeError of new URL
getExtension(url, defaultExt) ==
  IF ~IsValidUrl(url) THEN Throw("Invalid URL")
  ELSE LET ext == ExtName(UrlPathname[url.v]) IN
       JStr(IF ext # "" THEN ext ELSE defaultExt)

(***************************************************************************)
(* The documents the syndication endpoint serves                           *)
(***************************************************************************)
Photo(url) == JObj(<<<<"type", JStr("photo")>>, <<"media_url_https", JStr(url)>>>>)
Variant(contentType, bitrate, url) ==
  JObj(<<<<"content_type", JStr(contentType)>>>>
       \o (IF bitrate >= 0 THEN <<<<"bitrate", JNum(bitrate)>>>> ELSE << >>)
       \o <<<<"url", JStr(url)>>>>)
VideoMedia(type, thumb, variants) ==
  JObj(<<<<"type", JStr(type)>>>>
       \o (IF thumb # "" THEN <<<<"media_url_https", JStr(thumb)>>>> ELSE << >>)
       \o <<<<"video_info", JObj(<<<<"variants", JArr(variants)>>>>)>>>>)
AltVideo(poster, variants) ==
  JObj(<<<<"poster", JStr(poster)>>, <<"variants", JArr(variants)>>>>)
AltVariant(type, bitrate, src) ==
  JObj(<<<<"type", JStr(type)>>>>
       \o (IF bitrate >= 0 THEN <<<<"bitrate", JNum(bitrate)>>>> ELSE << >>)
       \o <<<<"src", JStr(src)>>>>)

RawTweet(id, text, extra) ==
  JObj(<< <<"id_str", JStr(id)>>,
          <<"text", JStr(text)>>,
          <<"user", JObj(<<<<"name", JStr("Alice")>>, <<"screen_name", JStr("alice")>>>>)>>,
          <<"favorite_count", JNum(5)>> >> \o extra)

\* text only
TextTweet(id) == RawTweet(id, "plain", << >>)
\* [photo, video, photo]; the video has a playlist and two MP4 variants
MixedTweet(id) ==
  RawTweet(id, "mixed",
    <<<<"mediaDetails", JArr(<<
        Photo(PhotoPng),
        VideoMedia("video", ThumbJpg,
                   <<Variant("application/x-mpegURL", -1, Playlist),
                     Variant("video/mp4", 500, VideoLo),
                     Variant("video/mp4", 1200, VideoHi)>>),
        Photo(PhotoBare)>>)>>>>)
\* an animated gif that only has a playlist, and a video in the alternate place
GifTweet(id) ==
  RawTweet(id, "gif",
    <<<<"mediaDetails", JArr(<<
        VideoMedia("animated_gif", ThumbJpg, <<Variant("application/x-mpegURL", -1, Playlist)>>)>>)>>,
      <<"video", AltVideo(PosterDot, <<AltVariant("video/mp4", -1, VideoGif),
                                       AltVariant("video/mp4", 0, VideoLo)>>)>>>>)

\* what the endpoint serves for id from one lookup to the next
RemoteDocs(id) == {TextTweet(id), MixedTweet(id)}

(***************************************************************************)
(* The network                                                             *)
(***************************************************************************)
\* what the syndication endpoint can answer to a lookup of id
LookupResponses(id) ==
  {HttpResponse(200, "OK", Stringify(d)) : d \in RemoteDocs(id)}
  \cup {HttpResponse(200, "OK", << >>),
        HttpResponse(200, "OK", <<Tok("bad", "<html>")>>),
        HttpResponse(404, "Not Found", << >>),
        HttpResponse(429, "Too Many Requests", << >>),
        HttpResponse(500, "Internal Server Error", << >>),
        NetworkError}

\* what a media server can answer; fetch() of something that is no URL rejects
DownloadResponses(url) ==
  IF ~IsValidUrl(url) THEN {NetworkError}
  ELSE {HttpResponse(200, "OK", <<Tok("bytes", url.v)>>),
        HttpResponse(403, "Forbidden", << >>),
        NetworkError}

\* lib/cache.js downloadFile: the exception (or undefined) and the files afterwards
downloadFile(f, destPath, response) ==
  IF response.rejected THEN [err |-> Throw("fetch failed"), fs |-> f]
  ELSE IF ~ResponseOk(response)
  THEN [err |-> Throw("Failed to download: " \o ToString(response.status)), fs |-> f]
  ELSE [err |-> Undefined, fs |-> WriteFileSync(f, destPath, response.body)]

(***************************************************************************)
(* twitter-archive.js main(), one action per file system or network step   *)
(***************************************************************************)
MaxRuns == 2
CustomDirs == {"", "/out/a"}

\* a request of the run and how it was answered
Request(kind, url, response) ==
  [kind |-> kind, url |-> url, ok |-> ~response.rejected /\ ResponseOk(response),
   rejected |-> response.rejected, status |-> response.status,
   statusText |-> response.statusText,
   empty |-> response.body = << >>, parses |-> JsonParse(response.body).ok]

\* a request that was sent and is not answered yet (pr.wire holds them)
Wire(kind, url) == [kind |-> kind, url |-> url]

\* mutant: an answered request stays on the wire
Settle_Keeps(wire, req) == wire

\* `await fetch(...)` resumes: the request is answered
Settle(wire, req) == wire \ {req}

\* the catch block of main(): console.error and process.exit(1)
Fail(pr, msg) ==
  [pr EXCEPT !.pc = "exit", !.exit = 1, !.stderr = Append(@, "Error: " \o msg)]

\* a new CLI invocation of process p
Start(p, cmd, id, force, dir, raw) ==
  /\ proc[p].pc \in {"idle", "exit"}
  /\ clock < MaxRuns
  /\ clock' = clock + 1
  /\ prev' = [prev EXCEPT ![p] = Summary(proc[p])]
  /\ proc' = [proc EXCEPT ![p] =
       [IdleProc EXCEPT !.pc = IF cmd = "archive" THEN "check" ELSE "tweetCheck",
                        !.cmd = cmd, !.tweetId = id, !.force = force,
                        !.customDir = dir, !.raw = raw,
                        !.marker0 = ExistsSync(fs, MarkerPath(id)), !.slot0 = SlotState(fs, id)]]
  /\ UNCHANGED <<fs, dirs, callVars>>

\* mutant: the directory is always the one derived from the id
CachedResult_DefaultDir(tweetId, metadata) ==
  JObj(<< <<"success", JBool(TRUE)>>,
          <<"cached", JBool(TRUE)>>,
          <<"tweet_id", JStr(tweetId)>>,
          <<"archive_dir", JStr(getArchiveDir(tweetId))>>,
          <<"archived_at", Prop(metadata, "archived_at")>>,
          <<"media_files", OrElse(Prop(metadata, "media_files"), JArr(<< >>))>> >>)

\* the result printed for an archive that exists already
CachedResult(tweetId, metadata) ==
  JObj(<< <<"success", JBool(TRUE)>>,
          <<"cached", JBool(TRUE)>>,
          <<"tweet_id", JStr(tweetId)>>,
          <<"archive_dir", OrElse(Prop(metadata, "archive_dir"), JStr(getArchiveDir(tweetId)))>>,
          <<"archived_at", Prop(metadata, "archived_at")>>,
          <<"media_files", OrElse(Prop(metadata, "media_files"), JArr(<< >>))>> >>)

\* mutant: a marker that does not parse does not count
ShortCircuits_NeedsReadable(f, tweetId, force) ==
  ~force /\ isArchived(f, tweetId) /\ getArchiveMetadata(f, tweetId) # JNull

\* mutant: the marker is never consulted
ShortCircuits_Never(f, tweetId, force) == FALSE

\* is this run one that returns the existing record without doing the work
ShortCircuits(f, tweetId, force) == ~force /\ isArchived(f, tweetId)

ArchiveCheck(p) ==
  LET pr == proc[p] IN
  /\ pr.pc = "check"
  /\ proc' = [proc EXCEPT ![p] =
       IF ShortCircuits(fs, pr.tweetId, pr.force)
       THEN [pr EXCEPT !.pc = "exit", !.exit = 0,
                       !.stdout = Append(@, Stringify(
                          CachedResult(pr.tweetId, getArchiveMetadata(fs, pr.tweetId))))]
       ELSE [pr EXCEPT !.pc = "getCached"]]
  /\ UNCHANGED <<fs, dirs, prev, clock, callVars>>

\* mutant: --force does not bypass the object cache
NeedsLookup_IgnoresForce(tweet, force) == ~Truthy(tweet)

\* does main() ask the remote API, given what the cache returned
NeedsLookup(tweet, force) == ~Truthy(tweet) \/ force

\* mutant: a forced call evicts the cached object before it asks the API
ArchiveGetCached_EvictsOnForce(p) ==
  LET pr == proc[p]
      tweet == getCachedTweet(fs, pr.tweetId)
  IN
  /\ pr.pc = "getCached"
  /\ proc' = [proc EXCEPT ![p] =
       [pr EXCEPT !.tweet = tweet,
                  !.pc = IF NeedsLookup(tweet, pr.force) THEN "fetch" ELSE "mkdir"]]
  /\ fs' = IF pr.force THEN clearTweetCache(fs, pr.tweetId) ELSE fs
  /\ UNCHANGED <<dirs, prev, clock, callVars>>

ArchiveGetCached(p) ==
  LET pr == proc[p]
      tweet == getCachedTweet(fs, pr.tweetId)
  IN
  /\ pr.pc = "getCached"
  /\ proc' = [proc EXCEPT ![p] =
       IF IsThrow(tweet) THEN Fail(pr, tweet.v)
       ELSE [pr EXCEPT !.tweet = tweet,
                       !.pc = IF NeedsLookup(tweet, pr.force) THEN "fetch" ELSE "mkdir"]]
  /\ UNCHANGED <<fs, dirs, prev, clock, callVars>>

ArchiveFetch(p) ==
  LET pr == proc[p] IN
  /\ pr.pc = "fetch"
  /\ Wire("lookup", JStr(pr.tweetId)) \in pr.wire
  /\ \E response \in LookupResponses(pr.tweetId) :
       LET r == fetchTweetFromApi(pr.tweetId, response)
           req == [pr EXCEPT !.net = Append(@, Request("lookup", pr.tweetId, response)),
                             !.wire = Settle(@, Wire("lookup", JStr(pr.tweetId)))]
       IN proc' = [proc EXCEPT ![p] =
            IF IsThrow(r) THEN Fail(req, r.v)
            ELSE [req EXCEPT !.tweet = r, !.pc = "cache"]]
  /\ UNCHANGED <<fs, dirs, prev, clock, callVars>>

\* mutant: the fetched document is not put into the object cache
ArchiveCache_Skip(p) ==
  LET pr == proc[p] IN
  /\ pr.pc = "cache"
  /\ proc' = [proc EXCEPT ![p] = [pr EXCEPT !.pc = "mkdir"]]
  /\ UNCHANGED <<fs, dirs, prev, clock, callVars>>

ArchiveCache(p) ==
  LET pr == proc[p] IN
  /\ pr.pc = "cache"
  /\ fs' = cacheTweet(fs, pr.tweetId, pr.tweet)
  /\ dirs' = dirs \cup {CACHE_DIR, getCacheDir("tweets")}
  /\ proc' = [proc EXCEPT ![p] =
       [pr EXCEPT !.pc = "mkdir", !.writes = Append(@, TweetCachePath(pr.tweetId))]]
  /\ UNCHANGED <<prev, clock, callVars>>

\* mutant: --dir is ignored
ResolveArchiveDir_IgnoresDir(customDir, tweetId) == getArchiveDir(tweetId)

\* customDir ? path.resolve(customDir) : getArchiveDir(tweetId); the custom
\* directories of the model are absolute, which path.resolve returns as they are
ResolveArchiveDir(customDir, tweetId) ==
  IF customDir # "" THEN customDir ELSE getArchiveDir(tweetId)

ArchiveMkdir(p) ==
  LET pr == proc[p]
      archiveDir == ResolveArchiveDir(pr.customDir, pr.tweetId)
  IN
  /\ pr.pc = "mkdir"
  /\ dirs' = dirs \cup {archiveDir}
  /\ proc' = [proc EXCEPT ![p] =
       [pr EXCEPT !.formatted = formatTweet(pr.tweet), !.archiveDir = archiveDir,
                  !.pc = "writeTweet"]]
  /\ UNCHANGED <<fs, prev, clock, callVars>>

\* mutant: a raw document that is there already is kept (first writer wins)
ArchiveWriteTweet_KeepExisting(p) ==
  LET pr == proc[p]
      tweetJsonPath == PathJoin(pr.archiveDir, "tweet.json")
  IN
  /\ pr.pc = "writeTweet"
  /\ fs' = IF ExistsSync(fs, tweetJsonPath) THEN fs
           ELSE WriteFileSync(fs, tweetJsonPath, Stringify(pr.tweet))
  /\ proc' = [proc EXCEPT ![p] =
       [pr EXCEPT !.pc = "writeFormatted", !.writes = Append(@, tweetJsonPath)]]
  /\ UNCHANGED <<dirs, prev, clock, callVars>>

ArchiveWriteTweet(p) ==
  LET pr == proc[p]
      tweetJsonPath == PathJoin(pr.archiveDir, "tweet.json")
  IN
  /\ pr.pc = "writeTweet"
  /\ fs' = WriteFileSync(fs, tweetJsonPath, Stringify(pr.tweet))
  /\ proc' = [proc EXCEPT ![p] =
       [pr EXCEPT !.pc = "writeFormatted", !.writes = Append(@, tweetJsonPath)]]
  /\ UNCHANGED <<dirs, prev, clock, callVars>>

\* mutant: the marker is written together with the projection
ArchiveWriteFormatted_MarksEarly(p) ==
  LET pr == proc[p]
      formattedJsonPath == PathJoin(pr.archiveDir, "tweet_formatted.json")
  IN
  /\ pr.pc = "writeFormatted"
  /\ fs' = saveArchiveMetadata(WriteFileSync(fs, formattedJsonPath, Stringify(pr.formatted)),
                               pr.tweetId, JObj(<<<<"tweet_id", JStr(pr.tweetId)>>>>))
  /\ proc' = [proc EXCEPT ![p] =
       [pr EXCEPT !.pc = "loop", !.k = 1, !.mediaIndex = 0, !.mediaFiles = << >>,
                  !.writes = @ \o <<formattedJsonPath, MarkerPath(pr.tweetId)>>]]
  /\ UNCHANGED <<dirs, prev, clock, callVars>>

ArchiveWriteFormatted(p) ==
  LET pr == proc[p]
      formattedJsonPath == PathJoin(pr.archiveDir, "tweet_formatted.json")
  IN
  /\ pr.pc = "writeFormatted"
  /\ fs' = WriteFileSync(fs, formattedJsonPath, Stringify(pr.formatted))
  /\ proc' = [proc EXCEPT ![p] =
       [pr EXCEPT !.pc = "loop", !.k = 1, !.mediaIndex = 0, !.mediaFiles = << >>,
                  !.writes = Append(@, formattedJsonPath)]]
  /\ UNCHANGED <<dirs, prev, clock, callVars>>

\* formatted.media
MediaOf(formatted) == ArrayOf(Prop(formatted, "media"))

\* `media_${mediaIndex}.${ext}`, `media_${mediaIndex}_thumb.${ext}`
MediaFilename(mediaIndex, ext) == "media_" \o ToString(mediaIndex) \o "." \o ext
\* mutant: the thumbnail takes the name of the item itself
ThumbFilename_NoSuffix(mediaIndex, ext) == "media_" \o ToString(mediaIndex) \o "." \o ext
ThumbFilename(mediaIndex, ext) == "media_" \o ToString(mediaIndex) \o "_thumb." \o ext

\* the head of `for (const media of formatted.media)` and its type dispatch
ArchiveLoop(p) ==
  LET pr == proc[p]
      media == MediaOf(pr.formatted)
  IN
  /\ pr.pc = "loop"
  /\ proc' = [proc EXCEPT ![p] =
       IF pr.k > Len(media) THEN [pr EXCEPT !.pc = "saveMeta"]
       ELSE IF Prop(media[pr.k], "type") = JStr("photo") THEN [pr EXCEPT !.pc = "photo"]
       ELSE IF IsVideoLike(media[pr.k]) THEN [pr EXCEPT !.pc = "thumb"]
       ELSE [pr EXCEPT !.k = @ + 1]]
  /\ UNCHANGED <<fs, dirs, prev, clock, callVars>>

\* one awaited downloadFile(url, path.join(archiveDir, filename)) of main()
Download(p, pr, what, url, filename, after) ==
  /\ Wire("media", url) \in pr.wire
  /\ \E response \in DownloadResponses(url) :
    LET filepath == PathJoin(pr.archiveDir, filename)
        d == downloadFile(fs, filepath, response)
        req == [pr EXCEPT !.net = Append(@, Request("media", url, response)),
                          !.wire = Settle(@, Wire("media", url)),
                          !.stderr = Append(@, "Downloading " \o what \o ": " \o filename)]
    IN /\ fs' = d.fs
       /\ proc' = [proc EXCEPT ![p] =
            IF IsThrow(d.err) THEN Fail(req, d.err.v)
            ELSE [after EXCEPT !.net = req.net, !.stderr = req.stderr, !.wire = req.wire,
                               !.mediaFiles = Append(@, filename),
                               !.writes = Append(@, filepath)]]

ArchivePhoto(p) ==
  LET pr == proc[p]
      media == MediaOf(pr.formatted)[pr.k]
      ext == getExtension(Prop(media, "url"), "jpg")
  IN
  /\ pr.pc = "photo"
  /\ IF IsThrow(ext)
     THEN /\ proc' = [proc EXCEPT ![p] = Fail(pr, ext.v)]
          /\ fs' = fs
     ELSE Download(p, pr, "photo", Prop(media, "url"), MediaFilename(pr.mediaIndex, ext.v),
                   [pr EXCEPT !.mediaIndex = @ + 1, !.k = @ + 1, !.pc = "loop"])
  /\ UNCHANGED <<dirs, prev, clock, callVars>>

ArchiveThumb(p) ==
  LET pr == proc[p]
      media == MediaOf(pr.formatted)[pr.k]
      thumbnail == Prop(media, "thumbnail")
      thumbExt == getExtension(thumbnail, "jpg")
  IN
  /\ pr.pc = "thumb"
  /\ IF ~Truthy(thumbnail)
     THEN /\ proc' = [proc EXCEPT ![p] = [pr EXCEPT !.pc = "video"]]
          /\ fs' = fs
     ELSE IF IsThrow(thumbExt)
     THEN /\ proc' = [proc EXCEPT ![p] = Fail(pr, thumbExt.v)]
          /\ fs' = fs
     ELSE Download(p, pr, "thumbnail", thumbnail, ThumbFilename(pr.mediaIndex, thumbExt.v),
                   [pr EXCEPT !.pc = "video"])
  /\ UNCHANGED <<dirs, prev, clock, callVars>>

\* media.variants[0].url when media.variants is a non-empty array
FirstVariantUrl(media) == Prop(ArrayOf(Prop(media, "variants"))[1], "url")
HasVariants(media) == Truthy(Prop(media, "variants")) /\ Len(ArrayOf(Prop(media, "variants"))) > 0

ArchiveVideo(p) ==
  LET pr == proc[p]
      media == MediaOf(pr.formatted)[pr.k]
      next == [pr EXCEPT !.mediaIndex = @ + 1, !.k = @ + 1, !.pc = "loop"]
  IN
  /\ pr.pc = "video"
  /\ IF HasVariants(media)
     THEN Download(p, pr, "video", FirstVariantUrl(media), MediaFilename(pr.mediaIndex, "mp4"), next)
     ELSE /\ proc' = [proc EXCEPT ![p] = next]
          /\ fs' = fs
  /\ UNCHANGED <<dirs, prev, clock, callVars>>

\* the request main() sends next at its position: fetch() inside
\* fetchTweetFromApi or downloadFile, before the await (empty: none)
NextRequest(pr) ==
  LET media == MediaOf(pr.formatted)[pr.k] IN
  CASE pr.pc \in {"fetch", "tweetFetch"} -> {Wire("lookup", JStr(pr.tweetId))}
    [] pr.pc = "photo" ->
         IF IsThrow(getExtension(Prop(media, "url"), "jpg")) THEN {}
         ELSE {Wire("media", Prop(media, "url"))}
    [] pr.pc = "thumb" ->
         IF ~Truthy(Prop(media, "thumbnail")) \/ IsThrow(getExtension(Prop(media, "thumbnail"), "jpg"))
         THEN {}
         ELSE {Wire("media", Prop(media, "thumbnail"))}
    [] pr.pc = "video" ->
         IF HasVariants(media) THEN {Wire("media", FirstVariantUrl(media))} ELSE {}
    [] OTHER -> {}

\* fetch(url) is called: the request leaves, main() awaits the answer
Send(p) ==
  LET pr == proc[p] IN
  /\ NextRequest(pr) # {}
  /\ NextRequest(pr) \cap pr.wire = {}
  /\ proc' = [proc EXCEPT ![p] = [pr EXCEPT !.wire = @ \cup NextRequest(pr)]]
  /\ UNCHANGED <<fs, dirs, prev, clock, callVars>>

\* new Date().toISOString()
IsoTime(t) == "T" \o ToString(t)

\* formatted.text?.slice(0, 100); the texts of the model are shorter than 100
TextPreview(text) == IF text.t = "string" /\ Len(text.v) <= 100 THEN text ELSE Undefined

JStrings(names) == JArr([i \in 1..Len(names) |-> JStr(names[i])])

\* mutant: the record always names the directory derived from the id
ArchiveMetadata_DefaultDir(pr, now) ==
  JObj(<< <<"tweet_id", JStr(pr.tweetId)>>,
          <<"source_url", JStr("https://twitter.com/i/status/" \o pr.tweetId)>>,
          <<"archived_at", JStr(IsoTime(now))>>,
          <<"archive_dir", JStr(getArchiveDir(pr.tweetId))>>,
          <<"media_files", JStrings(pr.mediaFiles)>>,
          <<"user", Prop(Prop(pr.formatted, "user"), "screen_name")>>,
          <<"text_preview", TextPreview(Prop(pr.formatted, "text"))>> >>)

ArchiveMetadata(pr, now) ==
  JObj(<< <<"tweet_id", JStr(pr.tweetId)>>,
          <<"source_url", JStr("https://twitter.com/i/status/" \o pr.tweetId)>>,
          <<"archived_at", JStr(IsoTime(now))>>,
          <<"archive_dir", JStr(pr.archiveDir)>>,
          <<"media_files", JStrings(pr.mediaFiles)>>,
          <<"user", Prop(Prop(pr.formatted, "user"), "screen_name")>>,
          <<"text_preview", TextPreview(Prop(pr.formatted, "text"))>> >>)

\* mutant: with --dir the record goes to the custom directory only
ArchiveSaveMeta_OnlyInDir(p) ==
  LET pr == proc[p]
      metadata == ArchiveMetadata(pr, clock)
  IN
  /\ pr.pc = "saveMeta"
  /\ dirs' = dirs \cup {CACHE_DIR, getCacheDir("archives"), getArchiveDir(pr.tweetId)}
  /\ fs' = IF pr.customDir # "" THEN fs ELSE saveArchiveMetadata(fs, pr.tweetId, metadata)
  /\ proc' = [proc EXCEPT ![p] =
       [pr EXCEPT !.metadata = metadata,
                  !.writes = IF pr.customDir # "" THEN @ ELSE Append(@, MarkerPath(pr.tweetId)),
                  !.pc = IF pr.customDir # "" THEN "saveMetaCustom" ELSE "print"]]
  /\ UNCHANGED <<prev, clock, callVars>>

ArchiveSaveMeta(p) ==
  LET pr == proc[p]
      metadata == ArchiveMetadata(pr, clock)
  IN
  /\ pr.pc = "saveMeta"
  /\ dirs' = dirs \cup {CACHE_DIR, getCacheDir("archives"), getArchiveDir(pr.tweetId)}
  /\ fs' = saveArchiveMetadata(fs, pr.tweetId, metadata)
  /\ proc' = [proc EXCEPT ![p] =
       [pr EXCEPT !.metadata = metadata,
                  !.writes = Append(@, MarkerPath(pr.tweetId)),
                  !.pc = IF pr.customDir # "" THEN "saveMetaCustom" ELSE "print"]]
  /\ UNCHANGED <<prev, clock, callVars>>

ArchiveSaveMetaCustom(p) ==
  LET pr == proc[p]
      metadataPath == PathJoin(pr.archiveDir, "metadata.json")
  IN
  /\ pr.pc = "saveMetaCustom"
  /\ fs' = WriteFileSync(fs, metadataPath, Stringify(pr.metadata))
  /\ proc' = [proc EXCEPT ![p] =
       [pr EXCEPT !.pc = "print", !.writes = Append(@, metadataPath)]]
  /\ UNCHANGED <<dirs, prev, clock, callVars>>

\* mutant: the fresh archive is reported as a cached one
FreshResult_Cached(pr) ==
  JObj(<< <<"success", JBool(TRUE)>>,
          <<"cached", JBool(TRUE)>>,
          <<"tweet_id", JStr(pr.tweetId)>>,
          <<"archive_dir", JStr(pr.archiveDir)>>,
          <<"archived_at", Prop(pr.metadata, "archived_at")>>,
          <<"media_files", JStrings(pr.mediaFiles)>> >>)

\* the result printed for an archive this run made
FreshResult(pr) ==
  JObj(<< <<"success", JBool(TRUE)>>,
          <<"cached", JBool(FALSE)>>,
          <<"tweet_id", JStr(pr.tweetId)>>,
          <<"archive_dir", JStr(pr.archiveDir)>>,
          <<"archived_at", Prop(pr.metadata, "archived_at")>>,
          <<"media_files", JStrings(pr.mediaFiles)>> >>)

ArchivePrint(p) ==
  LET pr == proc[p] IN
  /\ pr.pc = "print"
  /\ proc' = [proc EXCEPT ![p] =
       [pr EXCEPT !.pc = "exit", !.exit = 0,
                  !.stdout = Append(@, Stringify(FreshResult(pr)))]]
  /\ UNCHANGED <<fs, dirs, prev, clock, callVars>>

(***************************************************************************)
(* twitter-tweet.js main()                                                 *)
(***************************************************************************)
TweetOutput(raw, tweet) == Stringify(IF raw THEN tweet ELSE formatTweet(tweet))

\* mutant: a cached object is used by the first call only, later calls refetch
TweetCheck_Expires(p) ==
  LET pr == proc[p]
      cached == IF clock > 1 THEN JNull ELSE getCachedTweet(fs, pr.tweetId)
  IN
  /\ pr.pc = "tweetCheck"
  /\ proc' = [proc EXCEPT ![p] =
       IF pr.force THEN [pr EXCEPT !.pc = "tweetFetch"]
       ELSE IF Truthy(cached)
       THEN [pr EXCEPT !.pc = "exit", !.exit = 0, !.tweet = cached,
                       !.stdout = Append(@, TweetOutput(pr.raw, cached))]
       ELSE [pr EXCEPT !.pc = "tweetFetch"]]
  /\ UNCHANGED <<fs, dirs, prev, clock, callVars>>

TweetCheck(p) ==
  LET pr == proc[p]
      cached == getCachedTweet(fs, pr.tweetId)
  IN
  /\ pr.pc = "tweetCheck"
  /\ proc' = [proc EXCEPT ![p] =
       IF pr.force THEN [pr EXCEPT !.pc = "tweetFetch"]
       ELSE IF IsThrow(cached) THEN Fail(pr, cached.v)
       ELSE IF Truthy(cached)
       THEN [pr EXCEPT !.pc = "exit", !.exit = 0, !.tweet = cached,
                       !.stdout = Append(@, TweetOutput(pr.raw, cached))]
       ELSE [pr EXCEPT !.pc = "tweetFetch"]]
  /\ UNCHANGED <<fs, dirs, prev, clock, callVars>>

TweetFetch(p) ==
  LET pr == proc[p] IN
  /\ pr.pc = "tweetFetch"
  /\ Wire("lookup", JStr(pr.tweetId)) \in pr.wire
  /\ \E response \in LookupResponses(pr.tweetId) :
       LET r == fetchTweetFromApi(pr.tweetId, response)
           req == [pr EXCEPT !.net = Append(@, Request("lookup", pr.tweetId, response)),
                             !.wire = Settle(@, Wire("lookup", JStr(pr.tweetId)))]
       IN proc' = [proc EXCEPT ![p] =
            IF IsThrow(r) THEN Fail(req, r.v)
            ELSE [req EXCEPT !.tweet = r, !.pc = "tweetCache"]]
  /\ UNCHANGED <<fs, dirs, prev, clock, callVars>>

TweetCache(p) ==
  LET pr == proc[p] IN
  /\ pr.pc = "tweetCache"
  /\ fs' = cacheTweet(fs, pr.tweetId, pr.tweet)
  /\ dirs' = dirs \cup {CACHE_DIR, getCacheDir("tweets")}
  /\ proc' = [proc EXCEPT ![p] =
       [pr EXCEPT !.pc = "tweetPrint", !.writes = Append(@, TweetCachePath(pr.tweetId))]]
  /\ UNCHANGED <<prev, clock, callVars>>

TweetPrint(p) ==
  LET pr == proc[p] IN
  /\ pr.pc = "tweetPrint"
  /\ proc' = [proc EXCEPT ![p] =
       [pr EXCEPT !.pc = "exit", !.exit = 0,
                  !.stdout = Append(@, TweetOutput(pr.raw, pr.tweet))]]
  /\ UNCHANGED <<fs, dirs, prev, clock, callVars>>

(***************************************************************************)
(* The arguments of the two commands                                       *)
(***************************************************************************)
\* the inputs of the model and what extractTweetId finds in them: whether
\* /^\d+$/ matches, and what the two URL patterns capture ("" for no match)
InputTable ==
  ("42" :> [digits |-> TRUE, status |-> "", webStatus |-> ""])
  @@ ("https://x.com/alice/status/42" :> [digits |-> FALSE, status |-> "42", webStatus |-> ""])
  @@ ("https://twitter.com/i/web/status/42?s=20" :> [digits |-> FALSE, status |-> "", webStatus |-> "42"])
  @@ ("https://example.org/42" :> [digits |-> FALSE, status |-> "", webStatus |-> ""])
  @@ ("forty-two" :> [digits |-> FALSE, status |-> "", webStatus |-> ""])

\* lib/syndication.js extractTweetId: the id, or the Error it throws
extractTweetId(input) ==
  LET m == InputTable[input] IN
  IF m.digits THEN JStr(input)
  ELSE IF m.status # "" THEN JStr(m.status)
  ELSE IF m.webStatus # "" THEN JStr(m.webStatus)
  ELSE Throw("Could not extract tweet ID from: " \o input)

GoodInputs == {i \in DOMAIN InputTable : ~IsThrow(extractTweetId(i))}
BadInputs == {i \in DOMAIN InputTable : IsThrow(extractTweetId(i))}

Commands == {"archive", "tweet"}

\* what printUsage() logs to standard output (its first line stands for the
\* text); it is no JSON
UsageText(cmd) ==
  <<Tok("text", IF cmd = "archive" THEN "Usage: twitter-archive.js <tweet-url> [options]"
                ELSE "Usage: twitter-tweet.js <tweet-id-or-url> [options]")>>

\* console.error of `if (!input)`
InputRequiredText(cmd) ==
  IF cmd = "archive" THEN "Error: Tweet URL or ID required" ELSE "Error: Tweet ID or URL required"

\* an invocation that ends before it looks at disk or network
EndsAtOnce(p, cmd, stdout, stderr, exit) ==
  /\ proc[p].pc \in {"idle", "exit"}
  /\ clock < MaxRuns
  /\ clock' = clock + 1
  /\ prev' = [prev EXCEPT ![p] = Summary(proc[p])]
  /\ proc' = [proc EXCEPT ![p] =
       [IdleProc EXCEPT !.pc = "exit", !.cmd = cmd, !.stdout = stdout,
                        !.stderr = stderr, !.exit = exit]]
  /\ UNCHANGED <<fs, dirs, callVars>>

\* args.length === 0 || args.includes('--help'): printUsage() and exit
RunUsage(p) ==
  \E cmd \in Commands, help \in BOOLEAN :
    EndsAtOnce(p, cmd, <<UsageText(cmd)>>, << >>, IF help THEN 0 ELSE 1)

\* only options on the command line: `if (!input)`
RunNoInput(p) ==
  \E cmd \in Commands :
    EndsAtOnce(p, cmd, <<UsageText(cmd)>>, <<InputRequiredText(cmd)>>, 1)

\* extractTweetId throws inside try; the catch block reports it
RunBadInput(p) ==
  \E cmd \in Commands, input \in BadInputs :
    EndsAtOnce(p, cmd, << >>, <<"Error: " \o extractTweetId(input).v>>, 1)

(***************************************************************************)
(* Process interruption (Ctrl-C, kill).  writeFileSync is not atomic: a    *)
(* process killed inside cacheTweet can leave a slot that holds a prefix   *)
(* of the text it was writing.                                             *)
(***************************************************************************)
KilledExit == 130

\* a killed process: nothing of its memory survives
Killed(pr) ==
  [IdleProc EXCEPT !.pc = "exit", !.exit = KilledExit, !.cmd = pr.cmd, !.tweetId = pr.tweetId,
                   !.force = pr.force, !.customDir = pr.customDir]

Interrupt(p) ==
  LET pr == proc[p] IN
  /\ pr.pc \notin {"idle", "exit"}
  /\ proc' = [proc EXCEPT ![p] = Killed(pr)]
  /\ UNCHANGED <<fs, dirs, prev, clock, callVars>>

TornLengths(data) == {0, 1}

InterruptCacheWrite(p) ==
  LET pr == proc[p]
      data == Stringify(pr.tweet)
  IN
  /\ pr.pc \in {"cache", "tweetCache"}
  /\ \E n \in TornLengths(data) :
       fs' = WriteFileSync(fs, TweetCachePath(pr.tweetId), SubSeq(data, 1, n))
  /\ dirs' = dirs \cup {CACHE_DIR, getCacheDir("tweets")}
  /\ proc' = [proc EXCEPT ![p] =
       Killed(pr)]
  /\ UNCHANGED <<prev, clock, callVars>>

(***************************************************************************)
(* The command line: sequential invocations of the two commands            *)
(***************************************************************************)
\* the disk that `twitter-archive.js <id>` leaves when it fetched a document
\* without media at time `now` and succeeded
ArchivedDisk(id, doc, now) ==
  LET dir == getArchiveDir(id)
      run == [IdleProc EXCEPT !.tweetId = id, !.tweet = doc, !.formatted = formatTweet(doc),
                              !.archiveDir = dir]
      f1 == cacheTweet(NoFiles, id, doc)
      f2 == WriteFileSync(f1, PathJoin(dir, "tweet.json"), Stringify(doc))
      f3 == WriteFileSync(f2, PathJoin(dir, "tweet_formatted.json"), Stringify(run.formatted))
  IN [fs |-> saveArchiveMetadata(f3, id, ArchiveMetadata(run, now)),
      dirs |-> {CACHE_DIR, getCacheDir("tweets"), getCacheDir("archives"), dir}]

\* the disk before the first invocation: empty, or holding an object that an
\* earlier twitter-tweet.js run fetched and cached, or a complete archive that
\* an earlier twitter-archive.js run made
InitialDisks ==
  {[fs |-> NoFiles, dirs |-> {}]}
  \cup {[fs |-> cacheTweet(NoFiles, id, MixedTweet(id)),
         dirs |-> {CACHE_DIR, getCacheDir("tweets")}] : id \in CliIds}
  \cup {ArchivedDisk(id, TextTweet(id), 0) : id \in CliIds}

Init ==
  /\ \E d \in InitialDisks : fs = d.fs /\ dirs = d.dirs
  /\ proc = [p \in ProcIds |-> IdleProc]
  /\ prev = [p \in ProcIds |-> Summary(IdleProc)]
  /\ clock = 0
  /\ shadow = [id \in TweetIds |-> NoShadow]
  /\ lastOp = NoOp
  /\ prevOp = NoOp
  /\ pool = JNull
  /\ ExtIdle

StartArchive(p) ==
  \E input \in GoodInputs, force \in BOOLEAN, dir \in CustomDirs :
    Start(p, "archive", extractTweetId(input).v, force, dir, FALSE)

StartTweet(p) ==
  \E input \in GoodInputs, force \in BOOLEAN, raw \in BOOLEAN :
    Start(p, "tweet", extractTweetId(input).v, force, "", raw)

Step(p) ==
  \/ StartArchive(p)
  \/ StartTweet(p)
  \/ ArchiveCheck(p)
  \/ ArchiveGetCached(p)
  \/ ArchiveFetch(p)
  \/ ArchiveCache(p)
  \/ ArchiveMkdir(p)
  \/ ArchiveWriteTweet(p)
  \/ ArchiveWriteFormatted(p)
  \/ ArchiveLoop(p)
  \/ ArchivePhoto(p)
  \/ ArchiveThumb(p)
  \/ ArchiveVideo(p)
  \/ ArchiveSaveMeta(p)
  \/ ArchiveSaveMetaCustom(p)
  \/ ArchivePrint(p)
  \/ TweetCheck(p)
  \/ TweetFetch(p)
  \/ TweetCache(p)
  \/ TweetPrint(p)
  \/ Send(p)
  \/ Interrupt(p)
  \/ InterruptCacheWrite(p)

Next == \E p \in ProcIds : Step(p)

Spec == Init /\ [][Next]_vars

(***************************************************************************)
(* Invocations of either command, those with unusable arguments included   *)
(***************************************************************************)
NextArgs ==
  \E p \in ProcIds :
    \/ RunUsage(p)
    \/ RunNoInput(p)
    \/ RunBadInput(p)
    \/ Step(p)

SpecArgs == Init /\ [][NextArgs]_vars

(***************************************************************************)
(* Archive runs over generated documents: every media list and every       *)
(* variant list up to the bounds, found in the object cache by the run     *)
(***************************************************************************)
MaxMedia == 3
MaxVariants == 3
MaxDocRuns == 1

\* the variants a video_info can list: a playlist, MP4s with and without a
\* bitrate, two of them tied at 0
VariantPool ==
  {Variant("application/x-mpegURL", -1, Playlist),
   Variant("video/mp4", -1, VideoGif),
   Variant("video/mp4", 0, VideoLo),
   Variant("video/mp4", 500, VideoLo),
   Variant("video/mp4", 1200, VideoHi)}

\* the media items the lists are made of
MediaPool ==
  {Photo(PhotoPng),
   Photo(PhotoBare),
   VideoMedia("video", ThumbJpg,
              <<Variant("application/x-mpegURL", -1, Playlist),
                Variant("video/mp4", 500, VideoLo),
                Variant("video/mp4", 1200, VideoHi)>>),
   VideoMedia("animated_gif", "", <<Variant("application/x-mpegURL", -1, Playlist)>>),
   VideoMedia("animated_gif", PosterDot, <<Variant("video/mp4", -1, VideoGif)>>)}

AltVariantPool ==
  {AltVariant("application/x-mpegURL", -1, Playlist),
   AltVariant("video/mp4", -1, VideoGif),
   AltVariant("video/mp4", 500, VideoLo),
   AltVariant("video/mp4", 1200, VideoHi)}

GeneratedDocs(id) ==
  {RawTweet(id, "list", <<<<"mediaDetails", JArr(ms)>>>>) : ms \in SeqsUpTo(MediaPool, MaxMedia)}
  \cup {RawTweet(id, "one", <<<<"mediaDetails", JArr(<<VideoMedia(type, thumb, vs)>>)>>>>) :
          type \in {"video", "animated_gif"}, thumb \in {"", ThumbJpg},
          vs \in SeqsUpTo(VariantPool, MaxVariants)}
  \cup {GifTweet(id)}
  \cup {RawTweet(id, "alt", <<<<"mediaDetails", JArr(<<Photo(PhotoPng)>>)>>,
                              <<"video", AltVideo(ThumbJpg, vs)>>>>) :
          vs \in SeqsUpTo(AltVariantPool, MaxVariants)}

InitDocs ==
  /\ \E id \in CliIds : \E d \in GeneratedDocs(id) : fs = cacheTweet(NoFiles, id, d)
  /\ dirs = {CACHE_DIR, getCacheDir("tweets")}
  /\ proc = [p \in ProcIds |-> IdleProc]
  /\ prev = [p \in ProcIds |-> Summary(IdleProc)]
  /\ clock = 0
  /\ shadow = [id \in TweetIds |-> NoShadow]
  /\ lastOp = NoOp
  /\ prevOp = NoOp
  /\ pool = JNull
  /\ ExtIdle

StartDocs(p) ==
  /\ clock < MaxDocRuns
  /\ \E input \in GoodInputs : Start(p, "archive", extractTweetId(input).v, FALSE, "", FALSE)

NextDocs ==
  \E p \in ProcIds :
    \/ StartDocs(p)
    \/ ArchiveCheck(p)
    \/ ArchiveGetCached(p)
    \/ ArchiveMkdir(p)
    \/ ArchiveWriteTweet(p)
    \/ ArchiveWriteFormatted(p)
    \/ ArchiveLoop(p)
    \/ Send(p)
    \/ ArchivePhoto(p)
    \/ ArchiveThumb(p)
    \/ ArchiveVideo(p)
    \/ ArchiveSaveMeta(p)
    \/ ArchivePrint(p)

SpecDocs == InitDocs /\ [][NextDocs]_vars

(***************************************************************************)
(* Two archive processes at once for one id: main() takes no lock, so their *)
(* steps interleave at every await and between any two file system calls    *)
(***************************************************************************)
RaceIds == {1, 2}

InitRace ==
  /\ \E d \in InitialDisks : fs = d.fs /\ dirs = d.dirs
  /\ proc = [p \in RaceIds |-> IdleProc]
  /\ prev = [p \in RaceIds |-> Summary(IdleProc)]
  /\ clock = 0
  /\ shadow = [id \in TweetIds |-> NoShadow]
  /\ lastOp = NoOp
  /\ prevOp = NoOp
  /\ pool = JNull
  /\ ExtIdle

\* each process is one invocation of twitter-archive.js
StartRace(p) ==
  /\ proc[p].pc = "idle"
  /\ \E input \in GoodInputs, force \in BOOLEAN :
       Start(p, "archive", extractTweetId(input).v, force, "", FALSE)

NextRace ==
  \E p \in RaceIds :
    \/ StartRace(p)
    \/ ArchiveCheck(p)
    \/ ArchiveGetCached(p)
    \/ Send(p)
    \/ ArchiveFetch(p)
    \/ ArchiveCache(p)
    \/ ArchiveMkdir(p)
    \/ ArchiveWriteTweet(p)
    \/ ArchiveWriteFormatted(p)
    \/ ArchiveLoop(p)
    \/ ArchivePhoto(p)
    \/ ArchiveThumb(p)
    \/ ArchiveVideo(p)
    \/ ArchiveSaveMeta(p)
    \/ ArchivePrint(p)

SpecRace == InitRace /\ [][NextRace]_vars

(***************************************************************************)
(* Archive calls in a row that name different --dir directories            *)
(***************************************************************************)
OverrideDirs == {"/out/a", "/out/b"}

StartDirs(p) ==
  \E input \in GoodInputs, force \in BOOLEAN, dir \in OverrideDirs \cup {""} :
    Start(p, "archive", extractTweetId(input).v, force, dir, FALSE)

NextDirs ==
  \E p \in ProcIds :
    \/ StartDirs(p)
    \/ ArchiveCheck(p)
    \/ ArchiveGetCached(p)
    \/ Send(p)
    \/ ArchiveFetch(p)
    \/ ArchiveCache(p)
    \/ ArchiveMkdir(p)
    \/ ArchiveWriteTweet(p)
    \/ ArchiveWriteFormatted(p)
    \/ ArchiveLoop(p)
    \/ ArchivePhoto(p)
    \/ ArchiveThumb(p)
    \/ ArchiveVideo(p)
    \/ ArchiveSaveMeta(p)
    \/ ArchiveSaveMetaCustom(p)
    \/ ArchivePrint(p)

SpecDirs == Init /\ [][NextDirs]_vars

(***************************************************************************)
(* Archive calls of which some are killed inside saveArchiveMetadata:      *)
(* writeFileSync is not atomic, the marker can be left holding a prefix of *)
(* the record                                                              *)
(***************************************************************************)
InterruptMetaWrite(p) ==
  LET pr == proc[p]
      data == Stringify(ArchiveMetadata(pr, clock))
  IN
  /\ pr.pc = "saveMeta"
  /\ \E n \in TornLengths(data) :
       fs' = WriteFileSync(fs, MarkerPath(pr.tweetId), SubSeq(data, 1, n))
  /\ dirs' = dirs \cup {CACHE_DIR, getCacheDir("archives"), getArchiveDir(pr.tweetId)}
  /\ proc' = [proc EXCEPT ![p] = Killed(pr)]
  /\ UNCHANGED <<prev, clock, callVars>>

NextTorn ==
  \/ NextDirs
  \/ \E p \in ProcIds : InterruptMetaWrite(p)

SpecTorn == Init /\ [][NextTorn]_vars

(***************************************************************************)
(* formatTweet and getBestVideoUrl called on the same raw document         *)
(***************************************************************************)
MaxDetails == 2

\* media items as the endpoint lists them: a photo, videos and gifs with no
\* variants, with a playlist only, and with MP4 variants out of order
DetailPool ==
  {Photo(PhotoPng),
   VideoMedia("video", ThumbJpg, << >>),
   VideoMedia("video", ThumbJpg, <<Variant("application/x-mpegURL", -1, Playlist)>>),
   VideoMedia("video", ThumbJpg,
              <<Variant("application/x-mpegURL", -1, Playlist),
                Variant("video/mp4", 500, VideoLo),
                Variant("video/mp4", 1200, VideoHi)>>),
   VideoMedia("animated_gif", ThumbJpg, <<Variant("application/x-mpegURL", -1, Playlist)>>),
   VideoMedia("animated_gif", ThumbJpg, <<Variant("video/mp4", -1, VideoGif)>>)}

\* raw documents: a media list, and a video object in the alternate place or none
VideoDocs(id) ==
  {RawTweet(id, "details", <<<<"mediaDetails", JArr(ms)>>>>) : ms \in SeqsUpTo(DetailPool, MaxDetails)}
  \cup {RawTweet(id, "both", <<<<"mediaDetails", JArr(ms)>>, <<"video", AltVideo(PosterDot, vs)>>>>) :
          ms \in SeqsUpTo(DetailPool, MaxDetails), vs \in SeqsUpTo(AltVariantPool, MaxVariants)}
  \cup {RawTweet(id, "alt", <<<<"video", AltVideo(PosterDot, vs)>>>>) :
          vs \in SeqsUpTo(AltVariantPool, MaxVariants)}

InitVideo ==
  /\ fs = NoFiles
  /\ dirs = {}
  /\ proc = [p \in ProcIds |-> IdleProc]
  /\ prev = [p \in ProcIds |-> Summary(IdleProc)]
  /\ clock = 0
  /\ shadow = [id \in TweetIds |-> NoShadow]
  /\ lastOp = NoOp
  /\ prevOp = NoOp
  /\ pool \in UNION {VideoDocs(id) : id \in CliIds}
  /\ ExtIdle

\* the archive command projects the document
CallFormatTweet ==
  /\ prevOp = NoOp
  /\ prevOp' = [op |-> "formatTweet", id |-> "", arg |-> pool, ret |-> formatTweet(pool)]
  /\ UNCHANGED <<cliVars, shadow, lastOp, pool, extVars>>

\* the video command asks for the URL to download
CallGetBestVideoUrl ==
  /\ lastOp = NoOp
  /\ lastOp' = [op |-> "getBestVideoUrl", id |-> "", arg |-> pool, ret |-> getBestVideoUrl(pool)]
  /\ UNCHANGED <<cliVars, shadow, prevOp, pool, extVars>>

NextVideo == CallFormatTweet \/ CallGetBestVideoUrl

SpecVideo == InitVideo /\ [][NextVideo]_vars

(***************************************************************************)
(* pi-extensions/gondolin/index.ts: the sandbox VM of the extension.  The  *)
(* callbacks are async functions on one event loop: each runs without      *)
(* interruption up to its next await.  The k-th call of VM.create returns  *)
(* promise k, which resolves to VM k.  The host emits session_shutdown and *)
(* awaits its handler, so no second shutdown handler starts meanwhile.     *)
(***************************************************************************)
NextCreation == Cardinality({k \in 1..MaxCreates : creations[k] # "none"}) + 1

\* mutant: a creation in progress is not looked at
ensureVm_NoStartingCheck(c, kind) ==
  /\ callers[c].pc \in {"idle", "done", "failed"}
  /\ session' = [session EXCEPT !.callsSince = TRUE,
                                !.creates = IF vm = 0 THEN @ + 1 ELSE @]
  /\ IF vm # 0
     THEN /\ callers' = [callers EXCEPT ![c] = [pc |-> "done", kind |-> kind, on |-> 0, got |-> vm]]
          /\ UNCHANGED <<vmStarting, creations>>
     ELSE /\ NextCreation <= MaxCreates
          /\ creations' = [creations EXCEPT ![NextCreation] = "pending"]
          /\ vmStarting' = NextCreation
          /\ callers' = [callers EXCEPT ![c] =
               [pc |-> "await", kind |-> kind, on |-> NextCreation, got |-> 0]]
  /\ UNCHANGED <<cliVars, shadow, lastOp, prevOp, pool, vm, vmOpen, closing>>

\* `await ensureVm(ctx)` in callback c, up to the await: the VM that is there,
\* the creation in progress, or a new VM.create call
ensureVm(c, kind) ==
  /\ callers[c].pc \in {"idle", "done", "failed"}
  /\ session' = [session EXCEPT !.callsSince = TRUE,
                                !.creates = IF vm = 0 /\ vmStarting = 0 THEN @ + 1 ELSE @]
  /\ IF vm # 0
     THEN /\ callers' = [callers EXCEPT ![c] = [pc |-> "done", kind |-> kind, on |-> 0, got |-> vm]]
          /\ UNCHANGED <<vmStarting, creations>>
     ELSE IF vmStarting # 0
     THEN /\ callers' = [callers EXCEPT ![c] =
               [pc |-> "await", kind |-> kind, on |-> vmStarting, got |-> 0]]
          /\ UNCHANGED <<vmStarting, creations>>
     ELSE /\ NextCreation <= MaxCreates
          /\ creations' = [creations EXCEPT ![NextCreation] = "pending"]
          /\ vmStarting' = NextCreation
          /\ callers' = [callers EXCEPT ![c] =
               [pc |-> "await", kind |-> kind, on |-> NextCreation, got |-> 0]]
  /\ UNCHANGED <<cliVars, shadow, lastOp, prevOp, pool, vm, vmOpen, closing>>

SessionStart(c) == ensureVm(c, "session_start")
BeforeAgentStart(c) == ensureVm(c, "before_agent_start")
ToolExecute(c) == ensureVm(c, "tool")

\* VM.create resolves: `vm = created`, the promise resolves to the VM
CreateResolves ==
  \E k \in 1..MaxCreates :
    /\ creations[k] = "pending"
    /\ creations' = [creations EXCEPT ![k] = "resolved"]
    /\ vm' = k
    /\ vmOpen' = vmOpen \cup {k}
    /\ UNCHANGED <<cliVars, shadow, lastOp, prevOp, pool, vmStarting, closing, callers, session>>

\* VM.create rejects: the async function throws, its promise rejects
CreateRejects ==
  \E k \in 1..MaxCreates :
    /\ creations[k] = "pending"
    /\ creations' = [creations EXCEPT ![k] = "rejected"]
    /\ UNCHANGED <<cliVars, shadow, lastOp, prevOp, pool, vm, vmStarting, vmOpen, closing, callers, session>>

\* the await of callback c resumes with the VM or throws the rejection
Resume(c) ==
  /\ callers[c].pc = "await"
  /\ creations[callers[c].on] \in {"resolved", "rejected"}
  /\ callers' = [callers EXCEPT ![c] =
       IF creations[callers[c].on] = "resolved"
       THEN [callers[c] EXCEPT !.pc = "done", !.got = callers[c].on]
       ELSE [callers[c] EXCEPT !.pc = "failed"]]
  /\ UNCHANGED <<cliVars, shadow, lastOp, prevOp, pool, vm, vmStarting, creations, vmOpen, closing, session>>

\* mutant: the handler resets the two variables also when there is no VM
ShutdownFires_AlwaysResets ==
  /\ closing = 0
  /\ session' = [creates |-> 0, callsSince |-> FALSE,
                 shutdown |-> IF vm = 0 THEN "returned" ELSE "running"]
  /\ closing' = vm
  /\ vmStarting' = IF vm = 0 THEN 0 ELSE vmStarting
  /\ UNCHANGED <<cliVars, shadow, lastOp, prevOp, pool, vm, creations, vmOpen, callers>>

\* session_shutdown: `if (!vm) return`, else the handler awaits vm.close()
ShutdownFires ==
  /\ closing = 0
  /\ session' = [creates |-> 0, callsSince |-> FALSE,
                 shutdown |-> IF vm = 0 THEN "returned" ELSE "running"]
  /\ closing' = vm
  /\ UNCHANGED <<cliVars, shadow, lastOp, prevOp, pool, vm, vmStarting, creations, vmOpen, callers>>

\* vm.close() settles and the finally block runs; a close that rejects
\* leaves the VM as it was
ShutdownSettles ==
  /\ closing # 0
  /\ \E closed \in BOOLEAN : vmOpen' = IF closed THEN vmOpen \ {closing} ELSE vmOpen
  /\ vm' = 0
  /\ vmStarting' = 0
  /\ closing' = 0
  /\ session' = [session EXCEPT !.shutdown = "returned"]
  /\ UNCHANGED <<cliVars, shadow, lastOp, prevOp, pool, creations, callers>>

InitExt ==
  /\ fs = NoFiles
  /\ dirs = {}
  /\ proc = [p \in ProcIds |-> IdleProc]
  /\ prev = [p \in ProcIds |-> Summary(IdleProc)]
  /\ clock = 0
  /\ shadow = [id \in TweetIds |-> NoShadow]
  /\ lastOp = NoOp
  /\ prevOp = NoOp
  /\ pool = JNull
  /\ ExtIdle

NextExt ==
  \/ \E c \in CallerIds : SessionStart(c)
  \/ \E c \in CallerIds : BeforeAgentStart(c)
  \/ \E c \in CallerIds : ToolExecute(c)
  \/ \E c \in CallerIds : Resume(c)
  \/ CreateResolves
  \/ CreateRejects
  \/ ShutdownFires
  \/ ShutdownSettles

SpecExt == InitExt /\ [][NextExt]_vars

(***************************************************************************)
(* Properties                                                              *)
(***************************************************************************)
\* the slot of an id as a value: absent, or the text it holds
Slot(f, tweetId) ==
  IF ExistsSync(f, TweetCachePath(tweetId)) THEN <<"file", f[TweetCachePath(tweetId)]>>
  ELSE <<"absent">>

\* C8: get on an empty slot returns null without raising, and a get that
\* directly follows put(id, doc) returns a document equal to doc
C8_CacheRoundTrip ==
  /\ (lastOp.op = "get" /\ ~ExistsSync(fs, TweetCachePath(lastOp.id))) => lastOp.ret = JNull
  /\ (lastOp.op = "get" /\ prevOp.op = "put" /\ prevOp.id = lastOp.id) => lastOp.ret = prevOp.arg

\* a nested document came back from the slot that an earlier put had filled
C8_Witness ==
  /\ lastOp.op = "get" /\ prevOp.op = "put" /\ prevOp.id = lastOp.id
  /\ prevOp.arg = pool /\ pool.t = "object" /\ Len(pool.v) = 1 /\ pool.v[1][2].t = "array"
  /\ Len(pool.v[1][2].v) = MaxElems
  /\ lastOp.ret = pool

\* C10: get returns the document of the last put on that id that no evict
\* followed, null otherwise; put and evict leave the slots of other ids alone,
\* and evict of an absent id changes nothing
C10_SingleSlot ==
  /\ [](lastOp.op = "get" =>
          lastOp.ret = IF shadow[lastOp.id].has THEN shadow[lastOp.id].doc ELSE JNull)
  /\ [][\A id \in TweetIds : id # lastOp'.id => Slot(fs', id) = Slot(fs, id)]_vars
  /\ [][(lastOp'.op = "evict" /\ ~ExistsSync(fs, TweetCachePath(lastOp'.id))) => fs' = fs]_vars
  /\ [][lastOp'.op = "put" => Slot(fs', lastOp'.id) = <<"file", Stringify(lastOp'.arg)>>]_vars

\* one id was overwritten and read back while the other id kept its document
C10_Witness ==
  /\ lastOp.op = "get" /\ prevOp.op = "put" /\ prevOp.id # lastOp.id
  /\ shadow[lastOp.id].has /\ shadow[prevOp.id].has
  /\ shadow[lastOp.id].doc # shadow[prevOp.id].doc
  /\ lastOp.ret = pool /\ pool.t = "array"

(***************************************************************************)
(* The command line process and the run before it                          *)
(***************************************************************************)
P == proc[1]
Q == prev[1]

Range(seq) == {seq[i] : i \in 1..Len(seq)}
Lookups(net) == Cardinality({i \in 1..Len(net) : net[i].kind = "lookup"})
MediaRequests(net) == SelectSeq(net, LAMBDA r : r.kind = "media")
AllOk(net) == \A i \in 1..Len(net) : net[i].ok
\* the JSON result a run printed last
Printed(stdout) == JsonParse(stdout[Len(stdout)]).val
ResultFields(x) ==
  <<Prop(x, "tweet_id"), Prop(x, "archive_dir"), Prop(x, "archived_at"), Prop(x, "media_files")>>

\* the files an archive of the projection consists of, counted
ExpectedFileCount(formatted) ==
  LET media == MediaOf(formatted) IN
  Cardinality({i \in 1..Len(media) : Prop(media[i], "type") = JStr("photo")})
  + Cardinality({i \in 1..Len(media) : IsVideoLike(media[i]) /\ Truthy(Prop(media[i], "thumbnail"))})
  + Cardinality({i \in 1..Len(media) : IsVideoLike(media[i]) /\ HasVariants(media[i])})

\* archive(id) ran to its end twice in a row without force, the first time with success
TwiceNoForce ==
  /\ P.pc = "exit" /\ P.exit # KilledExit /\ P.cmd = "archive" /\ ~P.force
  /\ P.tweetId \in TweetIds
  /\ Q.cmd = "archive" /\ ~Q.force /\ Q.tweetId = P.tweetId /\ Q.exit = 0

\* the second run asked nothing, wrote nothing, and printed the fields of the
\* record on disk, which are the fields the first run printed
SecondRunReturnsRecord ==
  /\ P.exit = 0 /\ P.net = << >> /\ P.writes = << >>
  /\ Prop(Printed(P.stdout), "cached") = JBool(TRUE)
  /\ ResultFields(Printed(P.stdout)) = ResultFields(Printed(Q.stdout))
  /\ ResultFields(Printed(P.stdout)) = ResultFields(getArchiveMetadata(fs, P.tweetId))

\* C1 as stated: the two runs together make exactly one lookup and one set of
\* media downloads, and the second run asks nothing and returns the record
C1_ExactlyOneLookup ==
  TwiceNoForce =>
    /\ SecondRunReturnsRecord
    /\ Lookups(Q.net) + Lookups(P.net) = 1
    /\ Len(MediaRequests(Q.net \o P.net)) = Len(ArrayOf(Prop(Printed(Q.stdout), "media_files")))

\* C1 amended: the first run makes one lookup unless it finds the marker or a
\* readable cached object, and one set of downloads unless it finds the
\* marker; the second run asks nothing and returns the record
C1_Idempotence ==
  TwiceNoForce =>
    /\ SecondRunReturnsRecord
    /\ Lookups(Q.net) = (IF Q.marker0 \/ Q.slot0 = "ok" THEN 0 ELSE 1)
    /\ Len(MediaRequests(Q.net)) =
         (IF Q.marker0 THEN 0 ELSE Len(ArrayOf(Prop(Printed(Q.stdout), "media_files"))))
    /\ AllOk(Q.net)

\* a fresh archive into a custom directory with one lookup and four downloads,
\* then the short-circuit
C1_Witness ==
  /\ TwiceNoForce /\ P.exit = 0 /\ P.net = << >>
  /\ Lookups(Q.net) = 1 /\ Len(MediaRequests(Q.net)) = 4
  /\ Prop(Printed(P.stdout), "archive_dir") = JStr("/out/a")

\* C2: a forced archive asks the remote API first, whatever is cached or
\* marked; when it succeeds, the slot, the raw document, the projection, every
\* media file of the fetched document and the marker are this run's writes
C2_ForceSemantics ==
  /\ (P.cmd = "archive" /\ P.force /\ P.exit # KilledExit
        /\ P.pc \notin {"check", "getCached", "fetch"})
       => (Len(P.net) >= 1 /\ P.net[1].kind = "lookup")
  /\ (P.cmd = "archive" /\ P.force /\ P.exit = 0) =>
       /\ P.net[1].ok /\ Lookups(P.net) = 1
       /\ TweetCachePath(P.tweetId) \in Range(P.writes)
       /\ fs[TweetCachePath(P.tweetId)] = Stringify(P.tweet)
       /\ PathJoin(P.archiveDir, "tweet.json") \in Range(P.writes)
       /\ fs[PathJoin(P.archiveDir, "tweet.json")] = Stringify(P.tweet)
       /\ PathJoin(P.archiveDir, "tweet_formatted.json") \in Range(P.writes)
       /\ fs[PathJoin(P.archiveDir, "tweet_formatted.json")] = Stringify(formatTweet(P.tweet))
       /\ Len(P.mediaFiles) = ExpectedFileCount(formatTweet(P.tweet))
       /\ Len(MediaRequests(P.net)) = Len(P.mediaFiles)
       /\ \A i \in 1..Len(P.mediaFiles) :
            /\ PathJoin(P.archiveDir, P.mediaFiles[i]) \in Range(P.writes)
            /\ fs[PathJoin(P.archiveDir, P.mediaFiles[i])]
                 = <<Tok("bytes", MediaRequests(P.net)[i].url.v)>>
       /\ MarkerPath(P.tweetId) \in Range(P.writes)

\* a forced archive of four media files succeeded over a marker and a cached object
C2_Witness ==
  /\ P.cmd = "archive" /\ P.force /\ P.exit = 0
  /\ P.marker0 /\ P.slot0 = "ok" /\ Len(P.mediaFiles) = 4

\* C3 as stated: after an archive call that failed on a request, the marker is absent
C3_MarkerAbsentAfterFailure ==
  (P.cmd = "archive" /\ P.pc = "exit" /\ P.exit = 1
     /\ Len(P.net) >= 1 /\ ~P.net[Len(P.net)].ok)
  => ~isArchived(fs, P.tweetId)

\* where the marker write stands among the writes of the run
MarkerIndex(pr) == CHOOSE i \in 1..Len(pr.writes) : pr.writes[i] = MarkerPath(pr.tweetId)
MarkerWritten(pr) == pr.cmd = "archive" /\ MarkerPath(pr.tweetId) \in Range(pr.writes)

\* what stands in front of the marker write: the raw document, the projection
\* and every media file, all downloads having succeeded
CompleteBeforeMarker(pr) ==
  LET before == Range(SubSeq(pr.writes, 1, MarkerIndex(pr) - 1)) IN
  /\ PathJoin(pr.archiveDir, "tweet.json") \in before
  /\ PathJoin(pr.archiveDir, "tweet_formatted.json") \in before
  /\ AllOk(pr.net)
  /\ Len(pr.mediaFiles) = ExpectedFileCount(pr.formatted)
  /\ Len(MediaRequests(pr.net)) = Len(pr.mediaFiles)
  /\ \A i \in 1..Len(pr.mediaFiles) : PathJoin(pr.archiveDir, pr.mediaFiles[i]) \in before

\* C4 as stated: the marker is written after the documents and all media, and
\* the run writes no file after it
C4_MarkerIsLastWrite ==
  MarkerWritten(P) => (CompleteBeforeMarker(P) /\ MarkerIndex(P) = Len(P.writes))

\* what the code does guarantee about the marker: it is written after the
\* documents and all media, and the only file the run writes after it is the
\* copy of the record in the custom directory
C4_MarkerAfterAllFiles ==
  MarkerWritten(P) =>
    /\ CompleteBeforeMarker(P)
    /\ \A j \in (MarkerIndex(P) + 1)..Len(P.writes) :
         P.customDir # "" /\ P.writes[j] = PathJoin(P.archiveDir, "metadata.json")
    /\ Len(P.writes) <= MarkerIndex(P) + 1

\* an archive of four media files into a custom directory has written both records
C4_Witness ==
  /\ MarkerWritten(P) /\ P.exit = 0 /\ P.customDir # "" /\ Len(P.mediaFiles) = 4
  /\ P.writes[Len(P.writes)] = PathJoin(P.customDir, "metadata.json")

\* the run returned the existing record without doing the work
ShortCircuited(pr) ==
  /\ pr.pc = "exit" /\ pr.exit = 0 /\ pr.net = << >> /\ pr.writes = << >>
  /\ Prop(Printed(pr.stdout), "cached") = JBool(TRUE)

\* C5: a non-forced archive short-circuits exactly when the marker existed at
\* its start, whatever else is on disk
C5_MarkerSoleSignal ==
  (P.cmd = "archive" /\ ~P.force /\ P.pc # "check" /\ P.exit # KilledExit)
  => (ShortCircuited(P) <=> P.marker0)

\* short-circuited although the id-derived directory holds nothing but the marker
C5_Witness ==
  /\ P.cmd = "archive" /\ ~P.force /\ ShortCircuited(P) /\ P.marker0
  /\ ~ExistsSync(fs, PathJoin(getArchiveDir(P.tweetId), "tweet.json"))
  /\ ~ExistsSync(fs, PathJoin(getArchiveDir(P.tweetId), "tweet_formatted.json"))

\* not short-circuited although every file but the marker is there
C5_WitnessFiles ==
  /\ P.cmd = "archive" /\ ~P.force /\ ~P.marker0 /\ P.pc = "getCached"
  /\ P.slot0 = "ok"
  /\ ExistsSync(fs, PathJoin(getArchiveDir(P.tweetId), "tweet.json"))
  /\ ExistsSync(fs, PathJoin(getArchiveDir(P.tweetId), "tweet_formatted.json"))
  /\ ExistsSync(fs, PathJoin(getArchiveDir(P.tweetId), "media_2.jpg"))

\* the run consults the object cache: every fetch, every archive that does not short-circuit
ReadsCache(pr) == pr.cmd = "tweet" \/ (pr.cmd = "archive" /\ (pr.force \/ ~pr.marker0))

\* C9: a slot that does not parse reads as null; a run that finds one goes on
\* to the remote lookup as on a miss, fails only after a request was made, and
\* when it succeeds the slot holds the fetched document
C9_FailSoftRead ==
  /\ \A id \in TweetIds : SlotState(fs, id) = "corrupt" => getCachedTweet(fs, id) = JNull
  /\ (P.slot0 = "corrupt" /\ ReadsCache(P) /\ P.exit # KilledExit
        /\ P.pc \notin {"check", "getCached", "tweetCheck"}) =>
       /\ P.pc \in {"fetch", "tweetFetch"} \/ (Len(P.net) >= 1 /\ P.net[1].kind = "lookup")
       /\ P.exit = 1 => (Len(P.net) >= 1 /\ Len(P.stderr) >= 1)
       /\ P.exit = 0 =>
            /\ TweetCachePath(P.tweetId) \in Range(P.writes)
            /\ fs[TweetCachePath(P.tweetId)] = Stringify(P.tweet)
            /\ getCachedTweet(fs, P.tweetId) = P.tweet

\* a non-forced archive found a torn slot, looked the tweet up and succeeded
C9_Witness ==
  /\ P.cmd = "archive" /\ ~P.force /\ P.slot0 = "corrupt" /\ P.exit = 0
  /\ Lookups(P.net) = 1 /\ SlotState(fs, P.tweetId) = "ok"

\* the extension a file gets: that of the URL's path, jpg when it has none
ExtOf(url) == LET e == ExtName(UrlPathname[url.v]) IN IF e = "" THEN "jpg" ELSE e

ItemName(n, suffix, ext) == "media_" \o ToString(n) \o suffix \o "." \o ext

\* the names of the files of a projected media list from position n on; the
\* video file of an item is expected always, or only when the item has a variant
RECURSIVE NamesFrom(_, _, _)
NamesFrom(media, n, videoAlways) ==
  IF media = << >> THEN << >>
  ELSE LET m == Head(media)
           thumb == Prop(m, "thumbnail")
           names ==
             IF Prop(m, "type") = JStr("photo")
             THEN <<ItemName(n, "", ExtOf(Prop(m, "url")))>>
             ELSE (IF Truthy(thumb) THEN <<ItemName(n, "_thumb", ExtOf(thumb))>> ELSE << >>)
                  \o (IF videoAlways \/ Len(ArrayOf(Prop(m, "variants"))) > 0
                      THEN <<ItemName(n, "", "mp4")>> ELSE << >>)
       IN names \o NamesFrom(Tail(media), n + 1, videoAlways)

IsPrefix(a, b) == Len(a) <= Len(b) /\ SubSeq(b, 1, Len(a)) = a

\* the run is in or past the media loop
InMediaLoop(pr) ==
  pr.cmd = "archive" /\ pr.formatted # Undefined /\ pr.writes # << >>
  /\ pr.writes[Len(pr.writes)] # PathJoin(pr.archiveDir, "tweet.json")

\* the run did the work and succeeded
FreshSuccess(pr) == pr.cmd = "archive" /\ pr.exit = 0 /\ pr.writes # << >>

NamingHolds(videoAlways) ==
  LET expected == NamesFrom(MediaOf(P.formatted), 0, videoAlways) IN
  /\ InMediaLoop(P) => IsPrefix(P.mediaFiles, expected)
  /\ FreshSuccess(P) =>
       /\ P.mediaFiles = expected
       /\ Prop(getArchiveMetadata(fs, P.tweetId), "media_files") = JStrings(expected)
       /\ Prop(Printed(P.stdout), "media_files") = JStrings(expected)
       /\ \A i \in 1..Len(expected) : ExistsSync(fs, PathJoin(P.archiveDir, expected[i]))

\* C6 as stated: item n is stored as media_<n>.<ext> if a photo, as
\* media_<n>_thumb.<ext> (when it has a thumbnail) followed by media_<n>.mp4
\* if a video or animated gif; media_files lists these names in this order
C6_NamingAsStated == NamingHolds(TRUE)

\* C6 amended: as stated, but media_<n>.mp4 is there only when the item has at
\* least one MP4 variant; the index advances by one per item all the same
C6_DeterministicNaming == NamingHolds(FALSE)

\* [photo, video, photo] archived as media_0, media_1_thumb + media_1.mp4, media_2
C6_Witness ==
  /\ FreshSuccess(P)
  /\ [i \in 1..Len(MediaOf(P.formatted)) |-> Prop(MediaOf(P.formatted)[i], "type")]
       = <<JStr("photo"), JStr("video"), JStr("photo")>>
  /\ P.mediaFiles = <<"media_0.png", "media_1_thumb.jpg", "media_1.mp4", "media_2.jpg">>

\* a video-like item without an MP4 variant leaves a gap: media_1 follows it
C6_WitnessGap ==
  /\ FreshSuccess(P)
  /\ P.mediaFiles = <<"media_1.png">>

\* the variants the document lists for its n-th projected item, as
\* <<content type, url, bitrate>>: mediaDetails[n], or the alternate video
OfferedVariants(tweet, n) ==
  LET details == ArrayOf(Prop(tweet, "mediaDetails"))
      vs == ArrayOf(Prop(Prop(details[n], "video_info"), "variants"))
      alt == ArrayOf(Prop(Prop(tweet, "video"), "variants"))
  IN IF n <= Len(details)
     THEN {<<Prop(vs[i], "content_type"), Prop(vs[i], "url"), Prop(vs[i], "bitrate")>> : i \in 1..Len(vs)}
     ELSE {<<Prop(alt[i], "type"), Prop(alt[i], "src"), Prop(alt[i], "bitrate")>> : i \in 1..Len(alt)}

\* a missing bitrate counts as 0
Rate(b) == IF b.t = "number" THEN b.v ELSE 0
Mp4Offers(tweet, n) == {v \in OfferedVariants(tweet, n) : v[1] = JStr("video/mp4")}
BestOffers(tweet, n) ==
  {v \in Mp4Offers(tweet, n) : \A w \in Mp4Offers(tweet, n) : Rate(v[3]) >= Rate(w[3])}
VideoItems(formatted) ==
  {n \in 1..Len(MediaOf(formatted)) : IsVideoLike(MediaOf(formatted)[n])}
\* the requests of the run that went to a variant of some item
VariantRequests(pr) ==
  SelectSeq(pr.net, LAMBDA r :
    \E n \in VideoItems(pr.formatted) : \E v \in OfferedVariants(pr.tweet, n) : r.url = v[2])

\* the file media_<n-1>.mp4 holds what a best MP4 variant of item n serves
HoldsBest(pr, n) ==
  LET file == PathJoin(pr.archiveDir, ItemName(n - 1, "", "mp4")) IN
  /\ ExistsSync(fs, file)
  /\ \E v \in BestOffers(pr.tweet, n) : fs[file] = <<Tok("bytes", v[2].v)>>

\* C7 as stated: for every video or animated-gif item the file media_<n>.mp4
\* is an MP4 variant of highest bitrate, and exactly one variant per item is
\* downloaded
C7_ExactlyOnePerItem ==
  FreshSuccess(P) =>
    /\ \A n \in VideoItems(P.formatted) : HoldsBest(P, n)
    /\ Len(VariantRequests(P)) = Cardinality(VideoItems(P.formatted))

\* C7 amended: for every video or animated-gif item with at least one MP4
\* variant the file media_<n>.mp4 is an MP4 variant of highest bitrate (none
\* counting as 0) and one variant is downloaded; for an item without MP4
\* variants nothing is downloaded and there is no media_<n>.mp4
C7_BestBitrate ==
  FreshSuccess(P) =>
    /\ \A n \in VideoItems(P.formatted) :
         IF Mp4Offers(P.tweet, n) # {}
         THEN HoldsBest(P, n)
         ELSE ~ExistsSync(fs, PathJoin(P.archiveDir, ItemName(n - 1, "", "mp4")))
    /\ Len(VariantRequests(P))
         = Cardinality({n \in VideoItems(P.formatted) : Mp4Offers(P.tweet, n) # {}})

\* of a playlist, a 500 and a 1200 MP4 listed lowest first, the 1200 one was stored
C7_Witness ==
  /\ FreshSuccess(P)
  /\ Prop(P.tweet, "text") = JStr("one")
  /\ Cardinality(Mp4Offers(P.tweet, 1)) = 2 /\ Cardinality(OfferedVariants(P.tweet, 1)) = 3
  /\ fs[PathJoin(P.archiveDir, "media_0.mp4")] = <<Tok("bytes", VideoHi)>>
  /\ MediaOf(P.formatted)[1] # Undefined
  /\ FirstVariantUrl(MediaOf(P.formatted)[1]) = JStr(VideoHi)
  /\ Prop(ArrayOf(Prop(Prop(ArrayOf(Prop(P.tweet, "mediaDetails"))[1], "video_info"), "variants"))[3], "url")
       = JStr(VideoHi)

Last(seq) == seq[Len(seq)]

\* the last request of the run was a lookup that the server refused
LookupRefused(pr) ==
  pr.net # << >> /\ Last(pr.net).kind = "lookup" /\ ~Last(pr.net).rejected /\ ~Last(pr.net).ok

NotFoundText(id) == "Error: Tweet not found: " \o id
GenericText(r) == "Error: Failed to fetch tweet: " \o ToString(r.status) \o " " \o r.statusText

\* C11: a lookup answered with 404 fails with the not-found error naming the
\* id, any other refusal with the error carrying status code and text; the
\* caller can tell them apart, and the lookup is the only request of the run
C11_NotFoundDistinct ==
  LookupRefused(P) =>
    LET r == Last(P.net) IN
    /\ P.pc = "exit" /\ P.exit = 1 /\ P.stdout = << >>
    /\ Len(P.net) = 1 /\ P.wire = {}
    /\ P.stderr = <<IF r.status = 404 THEN NotFoundText(P.tweetId) ELSE GenericText(r)>>
    /\ (r.status = 404) <=> (Last(P.stderr) = NotFoundText(P.tweetId))
    /\ NotFoundText(P.tweetId) # GenericText(r)

\* a forced archive of an archived id was answered with 404
C11_Witness ==
  /\ LookupRefused(P) /\ Last(P.net).status = 404
  /\ P.cmd = "archive" /\ P.force /\ P.marker0
  /\ P.stderr = <<"Error: Tweet not found: 42">>

\* a fetch was answered with 429
C11_WitnessGeneric ==
  /\ LookupRefused(P) /\ Last(P.net).status = 429 /\ P.cmd = "tweet"
  /\ P.stderr = <<"Error: Failed to fetch tweet: 429 Too Many Requests">>

\* the lookup was answered with success, but the body is empty or no JSON
MalformedAnswer(pr) ==
  /\ pr.net # << >> /\ Last(pr.net).kind = "lookup" /\ Last(pr.net).ok
  /\ (Last(pr.net).empty \/ ~Last(pr.net).parses)

\* C12: an empty or unparsable body makes the lookup fail with an error of
\* its own, not with the exception of the parser, and the slot is not written
C12_MalformedIsDedicated ==
  MalformedAnswer(P) =>
    /\ P.pc = "exit" /\ P.exit = 1
    /\ Last(P.stderr) # "Error: " \o SyntaxErrorMessage
    /\ TweetCachePath(P.tweetId) \notin Range(P.writes)

\* the run ended by itself (it was not killed)
Ended(pr) == pr.pc = "exit" /\ pr.exit # KilledExit

\* C13: a run of either command that exits non-zero has written nothing to
\* standard output, and a run that exits 0 after doing work has written
\* exactly one JSON result to it
C13_OutputDiscipline ==
  /\ (Ended(P) /\ P.exit # 0) => P.stdout = << >>
  /\ (Ended(P) /\ P.exit = 0 /\ P.tweetId \in TweetIds) =>
       (Len(P.stdout) = 1 /\ JsonParse(P.stdout[1]).ok)

\* an archive call that got past the parsing of its arguments and ended
ArchiveCall(pr) == pr.cmd = "archive" /\ Ended(pr) /\ pr.stdout # <<UsageText("archive")>>

\* success was reported, with this value of `cached`
Reported(pr, cached) ==
  /\ pr.exit = 0 /\ Len(pr.stdout) = 1
  /\ Prop(Printed(pr.stdout), "success") = JBool(TRUE)
  /\ Prop(Printed(pr.stdout), "cached") = JBool(cached)

WroteMarker(pr) == MarkerPath(pr.tweetId) \in Range(pr.writes)

\* non-zero exit with the error on the error stream and nothing reported
Failed(pr) == pr.exit = 1 /\ pr.stdout = << >> /\ pr.stderr # << >>

\* C14: an archive call that ends is either already-archived (cached=true),
\* exactly when the marker existed at its start and force was false; or
\* freshly archived (cached=false), exactly when it wrote the marker; or
\* failed, and then it wrote no marker
C14_ThreeOutcomes ==
  ArchiveCall(P) =>
    /\ Reported(P, TRUE) \/ Reported(P, FALSE) \/ Failed(P)
    /\ ~(Reported(P, TRUE) /\ Reported(P, FALSE))
    /\ Failed(P) => ~(Reported(P, TRUE) \/ Reported(P, FALSE))
    /\ Reported(P, TRUE) <=> (P.marker0 /\ ~P.force)
    /\ Reported(P, FALSE) <=> WroteMarker(P)
    /\ Failed(P) => ~WroteMarker(P)

\* freshly archived, then already archived
C14_Witness ==
  /\ ArchiveCall(P) /\ Reported(P, TRUE) /\ ~WroteMarker(P)
  /\ Q.cmd = "archive" /\ Q.exit = 0 /\ Prop(Printed(Q.stdout), "cached") = JBool(FALSE)

\* failed at the second download of a forced run over an existing marker
C14_WitnessFailed ==
  /\ ArchiveCall(P) /\ Failed(P) /\ P.force /\ P.marker0 /\ Len(P.net) = 3

\* no request of the run repeats an earlier one, and none follows a failed one
OncePerRun(pr) ==
  /\ \A i, j \in 1..Len(pr.net) :
       (i < j /\ pr.net[i].kind = pr.net[j].kind) => pr.net[i].url # pr.net[j].url
  /\ \A i \in 1..Len(pr.net) : i < Len(pr.net) => pr.net[i].ok

\* this run did the whole work: every file of its document requested and
\* written by it, from index 0 on
FullRedo(pr) ==
  LET names == NamesFrom(MediaOf(pr.formatted), 0, FALSE) IN
  /\ Reported(pr, FALSE)
  /\ Len(MediaRequests(pr.net)) = Len(names)
  /\ pr.mediaFiles = names
  /\ \A i \in 1..Len(names) : PathJoin(pr.archiveDir, names[i]) \in Range(pr.writes)

\* a non-forced archive(id) ended with success after an archive(id) that failed
AfterFailure ==
  /\ ArchiveCall(P) /\ ~P.force /\ P.exit = 0
  /\ Q.cmd = "archive" /\ Q.tweetId = P.tweetId /\ Q.exit = 1

\* C15 as stated: within a call nothing is requested twice and nothing after
\* a failed request; a non-forced archive(id) after a failed one downloads
\* every media file again from index 0
C15_NoRetryNoResume ==
  /\ OncePerRun(P)
  /\ AfterFailure => FullRedo(P)

\* what the code does guarantee: the same, for a later call that finds no marker
C15_RedoWithoutMarker ==
  /\ OncePerRun(P)
  /\ (AfterFailure /\ ~P.marker0) => FullRedo(P)

\* the later call redid four downloads
C15_RedoReached == AfterFailure /\ ~P.marker0 /\ FullRedo(P) /\ Len(P.mediaFiles) = 4

\* the positions of main() before its call of saveArchiveMetadata
BeforeMetadataWrite ==
  {"check", "getCached", "fetch", "cache", "mkdir", "writeTweet", "writeFormatted",
   "loop", "photo", "thumb", "video", "saveMeta"}

\* an archive run of an id that had no marker, before its metadata write
Unmarked(pr) ==
  pr.cmd = "archive" /\ pr.pc \in BeforeMetadataWrite /\ ~pr.marker0

\* a non-forced archive(id) ended with success after an archive(id) that was killed
AfterInterrupt ==
  /\ ArchiveCall(P) /\ ~P.force /\ P.exit = 0
  /\ Q.cmd = "archive" /\ Q.tweetId = P.tweetId /\ Q.exit = KilledExit

\* C16: for an id without a prior marker, isArchived(id) is false in every
\* state of an archive run before its metadata write; killing the run there
\* leaves the id un-archived, and the next non-forced call that then finds no
\* marker performs the full download sequence
C16_InterruptedNotArchived ==
  /\ [](Unmarked(P) => ~isArchived(fs, P.tweetId))
  /\ []((AfterInterrupt /\ ~P.marker0) => FullRedo(P))
  /\ [][(Unmarked(P) /\ proc'[1].exit = KilledExit) => ~isArchived(fs', P.tweetId)]_vars

\* killed after some files were there, then archived in full by the next call
C16_Witness ==
  /\ AfterInterrupt /\ ~P.marker0 /\ FullRedo(P) /\ Len(P.mediaFiles) = 4
  /\ P.slot0 = "ok" /\ Lookups(P.net) = 0

\* an archive run that did not short-circuit, past its read of the object cache
PastCacheRead(pr) ==
  /\ pr.cmd = "archive" /\ pr.tweetId \in TweetIds /\ pr.exit # KilledExit
  /\ pr.pc \notin {"idle", "check", "getCached"}
  /\ (pr.force \/ ~pr.marker0)

\* the lookup was answered with a document
LookupSucceeded(pr) ==
  /\ pr.net # << >> /\ pr.net[1].kind = "lookup"
  /\ pr.net[1].ok /\ ~pr.net[1].empty /\ pr.net[1].parses

\* C17: an archive call that does not short-circuit looks the object up
\* exactly when force is set or the cache read found nothing; a fetched
\* document is put into the object cache before any archive file is written;
\* with a cached object and no force all requests are media downloads
C17_ObjectReuse ==
  PastCacheRead(P) =>
    /\ (P.pc = "fetch" \/ Lookups(P.net) = 1) <=> (P.force \/ P.slot0 # "ok")
    /\ Lookups(P.net) <= 1
    /\ (LookupSucceeded(P) /\ P.pc # "cache") =>
         /\ P.writes # << >> /\ P.writes[1] = TweetCachePath(P.tweetId)
         /\ getCachedTweet(fs, P.tweetId) = P.tweet
    /\ (P.slot0 = "ok" /\ ~P.force) =>
         /\ \A i \in 1..Len(P.net) : P.net[i].kind = "media"
         /\ \A w \in P.wire : w.kind = "media"
         /\ TweetCachePath(P.tweetId) \notin Range(P.writes)

\* forced over a cached object: looked up, cached first, archived
C17_Witness ==
  /\ PastCacheRead(P) /\ P.force /\ P.slot0 = "ok" /\ P.exit = 0
  /\ Lookups(P.net) = 1 /\ P.writes[1] = TweetCachePath(P.tweetId) /\ Len(P.writes) > 4

\* not forced with a cached object: four media requests and nothing else
C17_WitnessReuse ==
  /\ PastCacheRead(P) /\ ~P.force /\ P.slot0 = "ok" /\ P.exit = 0
  /\ Len(P.net) = 4 /\ Lookups(P.net) = 0

\* the directory the call asked for: the override, else the one derived from the id
RequestedDir(pr) ==
  IF pr.customDir # "" THEN pr.customDir
  ELSE "~/.cache/twitter-tools/archives/" \o pr.tweetId

\* dir holds the archive of the run: documents, the media files of the printed
\* result, and a record whose archive_dir is dir, as is that of the result
HoldsArchive(pr, dir) ==
  LET result == Printed(pr.stdout)
      files == ArrayOf(Prop(result, "media_files"))
      record == JsonParse(fs[PathJoin(dir, "metadata.json")]).val
  IN
  /\ ExistsSync(fs, PathJoin(dir, "tweet.json"))
  /\ ExistsSync(fs, PathJoin(dir, "tweet_formatted.json"))
  /\ \A i \in 1..Len(files) : ExistsSync(fs, PathJoin(dir, files[i].v))
  /\ ExistsSync(fs, PathJoin(dir, "metadata.json"))
  /\ Prop(record, "archive_dir") = JStr(dir)
  /\ Prop(record, "media_files") = Prop(result, "media_files")
  /\ Prop(getArchiveMetadata(fs, pr.tweetId), "archive_dir") = JStr(dir)
  /\ Prop(result, "archive_dir") = JStr(dir)

\* C18 as stated: after every successful archive call the directory the call
\* asked for holds the archive, and archive_dir names it
C18_OutputDirectoryAsStated ==
  (ArchiveCall(P) /\ P.exit = 0) => HoldsArchive(P, RequestedDir(P))

\* C18 amended: so it is after a call that archived freshly; an
\* already-archived call returns the archive_dir of the stored record
C18_OutputDirectory ==
  /\ (ArchiveCall(P) /\ Reported(P, FALSE)) =>
       /\ HoldsArchive(P, RequestedDir(P))
       /\ fs[PathJoin(RequestedDir(P), "tweet.json")] = Stringify(P.tweet)
       /\ fs[PathJoin(RequestedDir(P), "tweet_formatted.json")] = Stringify(P.formatted)
  /\ (ArchiveCall(P) /\ Reported(P, TRUE) /\ getArchiveMetadata(fs, P.tweetId) # JNull) =>
       Prop(Printed(P.stdout), "archive_dir")
         = Prop(getArchiveMetadata(fs, P.tweetId), "archive_dir")

\* a fresh archive of four media files into the override directory
C18_Witness ==
  /\ ArchiveCall(P) /\ Reported(P, FALSE) /\ P.customDir = "/out/a"
  /\ HoldsArchive(P, "/out/a") /\ Len(P.mediaFiles) = 4

\* the URLs of a projected media list in download order: per item the photo,
\* or the thumbnail (if any) and then the first variant (if any)
RECURSIVE UrlsFrom(_)
UrlsFrom(media) ==
  IF media = << >> THEN << >>
  ELSE LET m == Head(media)
           thumb == Prop(m, "thumbnail")
           variants == ArrayOf(Prop(m, "variants"))
       IN (IF Prop(m, "type") = JStr("photo") THEN <<Prop(m, "url")>>
           ELSE (IF Truthy(thumb) THEN <<thumb>> ELSE << >>)
                \o (IF Len(variants) > 0 THEN <<Prop(variants[1], "url")>> ELSE << >>))
          \o UrlsFrom(Tail(media))

\* the URLs of the media requests that were answered, in the order of the answers
AnsweredUrls(pr) ==
  LET reqs == MediaRequests(pr.net) IN [i \in 1..Len(reqs) |-> reqs[i].url]

\* C19: an archive run has at most one request outstanding; a lookup is the
\* first request and is answered before any media request is sent; media are
\* requested in the order of the projected list, a thumbnail before its
\* video, each sent only when all earlier ones are answered
C19_SequentialRequests ==
  (P.cmd = "archive" /\ P.exit # KilledExit) =>
    LET urls == UrlsFrom(MediaOf(P.formatted)) IN
    /\ Cardinality(P.wire) <= 1
    /\ \A i \in 1..Len(P.net) : P.net[i].kind = "lookup" => i = 1
    /\ IsPrefix(AnsweredUrls(P), urls)
    /\ \A w \in P.wire :
         IF w.kind = "lookup" THEN P.net = << >>
         ELSE /\ Len(AnsweredUrls(P)) < Len(urls)
              /\ w.url = urls[Len(AnsweredUrls(P)) + 1]
              /\ AllOk(P.net)

\* lookup, photo and thumbnail are answered, the video is outstanding
C19_Witness ==
  /\ P.cmd = "archive" /\ Len(P.net) = 3 /\ Lookups(P.net) = 1
  /\ P.wire = {Wire("media", JStr(VideoHi))}
  /\ AnsweredUrls(P) = <<JStr(PhotoPng), JStr(ThumbJpg)>>

\* the files of the archive of id as its marker describes it
ArchiveFiles(f, id) ==
  LET record == getArchiveMetadata(f, id)
      recorded == Prop(record, "archive_dir")
      dir == IF recorded.t = "string" THEN recorded.v ELSE getArchiveDir(id)
      files == ArrayOf(Prop(record, "media_files"))
  IN {MarkerPath(id), PathJoin(dir, "metadata.json"),
      PathJoin(dir, "tweet.json"), PathJoin(dir, "tweet_formatted.json")}
     \cup {PathJoin(dir, files[i].v) : i \in 1..Len(files)}

\* the step leaves the file as it is
SameFile(path) ==
  /\ ExistsSync(fs, path) <=> ExistsSync(fs', path)
  /\ ExistsSync(fs, path) => fs'[path] = fs[path]

\* the run that takes the step is a fetch, or a non-forced archive that found
\* the marker when it started
NotForcing(pr) == pr.cmd = "tweet" \/ (pr.cmd = "archive" /\ ~pr.force /\ pr.marker0)

\* C20: once the marker of an id exists, no step of a fetch call (forced or
\* not) or of a non-forced archive call changes a file of the id's archive
C20_ArchiveImmutable ==
  [][\A id \in TweetIds :
       (isArchived(fs, id) /\ NotForcing(proc'[1])) =>
         \A path \in ArchiveFiles(fs, id) : SameFile(path)]_vars

\* after an archive of four media files a forced fetch put a newer document
\* into the object cache; the archive still holds the older one
C20_Witness ==
  /\ P.cmd = "tweet" /\ P.force /\ P.exit = 0 /\ isArchived(fs, P.tweetId)
  /\ Q.cmd = "archive" /\ Q.exit = 0
  /\ ExistsSync(fs, PathJoin(getArchiveDir(P.tweetId), "tweet.json"))
  /\ fs[TweetCachePath(P.tweetId)] # fs[PathJoin(getArchiveDir(P.tweetId), "tweet.json")]
  /\ Len(ArrayOf(Prop(getArchiveMetadata(fs, P.tweetId), "media_files"))) = 4
  /\ ExistsSync(fs, PathJoin(getArchiveDir(P.tweetId), "media_1.mp4"))

\* a call of either command that was not forced and found a readable object
ReusesObject(pr) ==
  pr.cmd \in Commands /\ pr.tweetId \in TweetIds /\ ~pr.force /\ pr.slot0 = "ok"

\* C21: the slot of an id changes only in a step of a call for that id whose
\* lookup succeeded, and that call was forced or had found no readable
\* object; a non-forced call that found one sends no lookup, whatever the
\* clock says
C21_NoExpiry ==
  /\ [][\A id \in TweetIds :
         Slot(fs', id) # Slot(fs, id) =>
           /\ proc[1].tweetId = id /\ LookupSucceeded(proc[1])
           /\ proc[1].force \/ proc[1].slot0 # "ok"]_vars
  /\ [](ReusesObject(P) =>
         /\ Lookups(P.net) = 0
         /\ \A w \in P.wire : w.kind # "lookup")

\* the second call in a row that reuses the object: no lookup in either, and
\* the slot still holds what the first call found
C21_Witness ==
  /\ clock >= 2 /\ ReusesObject(P) /\ P.cmd = "tweet" /\ P.exit = 0 /\ P.net = << >>
  /\ Q.cmd = "archive" /\ Q.exit = 0 /\ Q.slot0 = "ok" /\ ~Q.force /\ Lookups(Q.net) = 0
  /\ Len(Q.net) = 4
  /\ getCachedTweet(fs, P.tweetId) = P.tweet

\* what the run holds for a file it writes: documents and record as text, of a
\* download the body that its last request was answered with
HeldFor(pr, path) ==
  IF path \in {TweetCachePath(pr.tweetId), PathJoin(pr.archiveDir, "tweet.json")}
  THEN Stringify(pr.tweet)
  ELSE IF path = PathJoin(pr.archiveDir, "tweet_formatted.json") THEN Stringify(pr.formatted)
  ELSE IF path = MarkerPath(pr.tweetId) THEN Stringify(pr.metadata)
  ELSE <<Tok("bytes", Last(pr.net).url.v)>>

\* both calls archived freshly and saw different documents
BothArchived ==
  /\ \A p \in RaceIds : proc[p].pc = "exit" /\ proc[p].exit = 0 /\ WroteMarker(proc[p])
  /\ proc[1].tweet # proc[2].tweet

\* the files on disk are those of run a by the record and hold the raw
\* document of run b
MixedArchive(a, b) ==
  LET dir == getArchiveDir(proc[a].tweetId) IN
  /\ getArchiveMetadata(fs, proc[a].tweetId) = proc[a].metadata
  /\ proc[a].metadata # proc[b].metadata
  /\ fs[PathJoin(dir, "tweet.json")] = Stringify(proc[b].tweet)

\* C22: nothing orders the writes of two concurrent archive calls: every
\* write of either process replaces the file with what that process holds and
\* leaves every other file alone (last writer wins), and when both have
\* succeeded the surviving record is that of one of the two
C22_LastWriterWins ==
  /\ [][\A p \in RaceIds :
         Len(proc'[p].writes) = Len(proc[p].writes) + 1 =>
           LET path == Last(proc'[p].writes) IN
           /\ ExistsSync(fs', path) /\ fs'[path] = HeldFor(proc'[p], path)
           /\ \A q \in DOMAIN fs \ {path} : ExistsSync(fs', q) /\ fs'[q] = fs[q]]_vars
  /\ [](BothArchived =>
         \E p \in RaceIds : getArchiveMetadata(fs, proc[p].tweetId) = proc[p].metadata)

\* the record that survived lists no media and is that of the run that saw
\* the text-only document; the raw document and four media files on disk
\* are those of the other run
C22_Witness ==
  /\ BothArchived
  /\ \E a, b \in RaceIds :
       /\ a # b /\ MixedArchive(a, b)
       /\ proc[a].mediaFiles = << >> /\ Len(proc[b].mediaFiles) = 4
       /\ \A i \in 1..4 :
            ExistsSync(fs, PathJoin(getArchiveDir(proc[a].tweetId), proc[b].mediaFiles[i]))

\* the directory an archive_dir value names
DirOf(x) == IF x.t = "string" THEN x.v ELSE ""

\* the call before this one archived freshly into the override directory D
ArchivedInto(pr, D) ==
  /\ pr.cmd = "archive" /\ pr.exit = 0 /\ Len(pr.stdout) = 1
  /\ Prop(Printed(pr.stdout), "cached") = JBool(FALSE)
  /\ Prop(Printed(pr.stdout), "archive_dir") = JStr(D)

\* C23: a fresh archive with an override directory D leaves the same record
\* at the id-derived marker path and in D, naming D; the next call for the id,
\* not forced and naming another directory, reports the existing archive
\* with archive_dir = D, and sends and writes nothing
C23_MarkerUnderOverride ==
  /\ (ArchiveCall(P) /\ Reported(P, FALSE) /\ P.customDir # "") =>
       /\ isArchived(fs, P.tweetId)
       /\ ExistsSync(fs, PathJoin(P.customDir, "metadata.json"))
       /\ fs[MarkerPath(P.tweetId)] = fs[PathJoin(P.customDir, "metadata.json")]
       /\ Prop(getArchiveMetadata(fs, P.tweetId), "archive_dir") = JStr(P.customDir)
  /\ \A D \in OverrideDirs :
       (ArchivedInto(Q, D) /\ Q.tweetId = P.tweetId /\ ArchiveCall(P)
          /\ ~P.force /\ P.customDir # D) =>
         /\ Reported(P, TRUE)
         /\ Prop(Printed(P.stdout), "archive_dir") = JStr(D)
         /\ P.writes = << >> /\ P.net = << >> /\ P.wire = {}

\* archived into /out/a, then asked for /out/b: reported as being in /out/a,
\* and /out/b holds nothing
C23_Witness ==
  /\ ArchivedInto(Q, "/out/a") /\ Len(Q.net) = 5 /\ ArchiveCall(P) /\ ~P.force
  /\ P.customDir = "/out/b" /\ Reported(P, TRUE)
  /\ Prop(Printed(P.stdout), "archive_dir") = JStr("/out/a")
  /\ \A path \in DOMAIN fs : ~IsPrefix("/out/b", path)

\* the directory named by the record holds both documents and every listed file
RecordedFilesExist(f, id) ==
  LET record == getArchiveMetadata(f, id)
      dir == DirOf(Prop(record, "archive_dir"))
      files == ArrayOf(Prop(record, "media_files"))
  IN
  /\ ExistsSync(f, PathJoin(dir, "tweet.json"))
  /\ ExistsSync(f, PathJoin(dir, "tweet_formatted.json"))
  /\ \A i \in 1..Len(files) : ExistsSync(f, PathJoin(dir, files[i].v))

\* C24: at every point of every sequence of archive calls, a marker that
\* exists and parses names a directory that holds tweet.json,
\* tweet_formatted.json and every file of its media_files
C24_MarkerImpliesFiles ==
  \A id \in TweetIds :
    (isArchived(fs, id) /\ getArchiveMetadata(fs, id) # JNull) => RecordedFilesExist(fs, id)

\* a forced call into another directory failed at a download after it had
\* written its documents; the record of the earlier archive in /out/a with
\* four media files is intact
C24_Witness ==
  /\ ArchiveCall(P) /\ Failed(P) /\ P.force /\ P.customDir = "/out/b" /\ Len(P.writes) >= 3
  /\ isArchived(fs, P.tweetId)
  /\ Prop(getArchiveMetadata(fs, P.tweetId), "archive_dir") = JStr("/out/a")
  /\ Len(ArrayOf(Prop(getArchiveMetadata(fs, P.tweetId), "media_files"))) = 4
  /\ RecordedFilesExist(fs, P.tweetId)

\* the positions of main() up to the answer of the lookup (and between calls)
UpToLookup == {"idle", "exit", "check", "getCached", "fetch", "tweetCheck", "tweetFetch"}

\* the step in which the lookup of the call is answered and fails
LookupFails ==
  /\ proc[1].pc \in {"fetch", "tweetFetch"}
  /\ Len(proc'[1].net) = 1 /\ proc[1].net = << >>
  /\ ~LookupSucceeded(proc'[1])

\* C25: no step of a call up to the answer of its lookup touches the disk,
\* the call has written nothing by then, and a lookup that fails (HTTP
\* error, empty or unusable body, no connection) ends the call at once with
\* exit 1; so the slot and the archive files are as they were before the call
C25_FailedLookupNoChange ==
  /\ [][proc[1].pc \in UpToLookup => (fs' = fs /\ dirs' = dirs)]_vars
  /\ [][LookupFails =>
         /\ proc'[1].pc = "exit" /\ proc'[1].exit = 1
         /\ proc'[1].writes = << >>
         /\ fs' = fs]_vars
  /\ [](P.pc \in UpToLookup \ {"exit"} => P.writes = << >>)

\* a forced archive call over a complete archive and a cached object got
\* a 404: object and archive are still there
C25_Witness ==
  /\ P.cmd = "archive" /\ P.force /\ P.marker0 /\ P.slot0 = "ok" /\ P.exit = 1
  /\ Len(P.net) = 1 /\ P.net[1].status = 404 /\ P.writes = << >>
  /\ Q.cmd = "archive" /\ Q.exit = 0 /\ Len(Q.net) = 5
  /\ getCachedTweet(fs, P.tweetId) = MixedTweet(P.tweetId)
  /\ isArchived(fs, P.tweetId) /\ RecordedFilesExist(fs, P.tweetId)

\* the marker of id exists and JSON.parse fails on it
MarkerUnreadable(f, id) ==
  ExistsSync(f, MarkerPath(id)) /\ ~JsonParse(f[MarkerPath(id)]).ok

\* C26: a non-forced archive call on an id whose marker does not parse
\* reports cached=true with the id-derived directory and no media files,
\* without a request or a write; no step of a non-forced call that found a
\* marker changes the disk, and an unreadable marker becomes readable only
\* in the record write of a forced call
C26_UnreadableMarker ==
  /\ [](\A id \in TweetIds :
         (ArchiveCall(P) /\ P.tweetId = id /\ ~P.force /\ P.marker0
            /\ MarkerUnreadable(fs, id)) =>
           /\ Reported(P, TRUE)
           /\ Prop(Printed(P.stdout), "archive_dir") = JStr(getArchiveDir(id))
           /\ Prop(Printed(P.stdout), "media_files") = JArr(<< >>)
           /\ Prop(Printed(P.stdout), "archived_at") = Undefined
           /\ P.net = << >> /\ P.wire = {} /\ P.writes = << >>)
  /\ [][(proc'[1].cmd = "archive" /\ ~proc'[1].force /\ proc'[1].marker0) => fs' = fs]_vars
  /\ [][\A id \in TweetIds :
         (MarkerUnreadable(fs, id) /\ ~MarkerUnreadable(fs', id)) =>
           /\ proc[1].cmd = "archive" /\ proc[1].force /\ proc[1].pc = "saveMeta"
           /\ getArchiveMetadata(fs', id) = proc'[1].metadata]_vars

\* killed inside the record write, then called again without force and with
\* an override directory: the torn marker alone makes the call report an
\* archive in the id-derived directory
C26_Witness ==
  /\ Q.exit = KilledExit /\ ArchiveCall(P) /\ ~P.force /\ P.customDir = "/out/a"
  /\ MarkerUnreadable(fs, P.tweetId) /\ Reported(P, TRUE)
  /\ Prop(Printed(P.stdout), "archive_dir") = JStr(getArchiveDir(P.tweetId))

\* a forced call replaced an unreadable marker by its record
C26_WitnessRepair ==
  /\ Q.exit = KilledExit /\ ArchiveCall(P) /\ P.force /\ P.marker0 /\ Reported(P, FALSE)
  /\ ~MarkerUnreadable(fs, P.tweetId)
  /\ getArchiveMetadata(fs, P.tweetId) = P.metadata

\* both functions were called on the document
BothCalled == prevOp.op = "formatTweet" /\ lastOp.op = "getBestVideoUrl"

\* the video-like entries of the projection that have a variant, in order
PlayableEntries(formatted) ==
  SelectSeq(MediaOf(formatted), LAMBDA m : IsVideoLike(m) /\ HasVariants(m))

\* C27: on every raw document getBestVideoUrl returns a URL exactly when the
\* projection has a video-like entry with a variant, and then the first
\* variant URL of the first such entry
C27_VideoSelectionAgrees ==
  BothCalled =>
    LET playable == PlayableEntries(prevOp.ret) IN
    /\ (lastOp.ret # JNull) <=> (playable # << >>)
    /\ playable # << >> => lastOp.ret = FirstVariantUrl(playable[1])

\* mediaDetails lists a 'video' item without an MP4 variant and tweet.video
\* has MP4 variants
AltBlocked(tweet) ==
  LET details == ArrayOf(Prop(tweet, "mediaDetails")) IN
  /\ \E i \in 1..Len(details) : Prop(details[i], "type") = JStr("video")
  /\ ~BestInDetails(details).found
  /\ FilterMp4(ArrayOf(Prop(Prop(tweet, "video"), "variants")), "type") # << >>

\* on every other document the two agree, and on these getBestVideoUrl
\* returns the best MP4 of tweet.video while the projection has no playable entry
C27_AgreeUnlessBlocked ==
  BothCalled =>
    LET playable == PlayableEntries(prevOp.ret) IN
    IF AltBlocked(pool)
    THEN playable = << >> /\ lastOp.ret.t = "string"
    ELSE /\ (lastOp.ret # JNull) <=> (playable # << >>)
         /\ playable # << >> => lastOp.ret = FirstVariantUrl(playable[1])

\* the two agree on a gif without MP4 followed by tweet.video with MP4s
C27_WitnessAgree ==
  /\ BothCalled /\ ~AltBlocked(pool) /\ lastOp.ret = JStr(VideoHi)
  /\ Len(MediaOf(prevOp.ret)) = 3 /\ Len(PlayableEntries(prevOp.ret)) = 1

\* the VM.create calls that are not settled
PendingCreations == {k \in 1..MaxCreates : creations[k] = "pending"}

\* the callbacks whose ensureVm call waits for a creation in progress
Overlapping == {c \in CallerIds : callers[c].pc = "await" /\ callers[c].on \in PendingCreations}

\* C28: VM.create is called at most once since session_shutdown last fired,
\* at most one creation is in progress, every callback that waits while it is
\* in progress waits for that one, and each gets the VM its promise made
C28_SingleVm ==
  /\ session.creates <= 1
  /\ Cardinality(PendingCreations) <= 1
  /\ \A c \in Overlapping : callers[c].on = vmStarting
  /\ \A c, d \in CallerIds :
       (callers[c].pc = "done" /\ callers[d].pc = "done" /\ callers[c].on # 0
          /\ callers[c].on = callers[d].on) => callers[c].got = callers[d].got

\* session_start, before_agent_start and a tool call all wait for the second
\* VM.create call, the one after a shutdown
C28_Witness ==
  /\ creations[1] = "resolved" /\ creations[2] = "pending" /\ session.creates = 1
  /\ Overlapping = CallerIds
  /\ {callers[c].kind : c \in CallerIds} = {"session_start", "before_agent_start", "tool"}

\* the three of them received the one VM
C28_WitnessSame ==
  /\ \A c \in CallerIds : callers[c].pc = "done" /\ callers[c].on = 1 /\ callers[c].got = 1
  /\ {callers[c].kind : c \in CallerIds} = {"session_start", "before_agent_start", "tool"}
  /\ creations[2] = "none"

\* the VM.create calls that rejected
RejectedCreations == {k \in 1..MaxCreates : creations[k] = "rejected"}

\* C29: once VM.create has rejected, vm stays null and vmStarting stays the
\* rejected promise: no step calls VM.create again or changes the two
\* variables, session_shutdown included, and every callback that calls
\* ensureVm from then on waits for that promise and fails with it
C29_StickyFailure ==
  /\ [](\A k \in RejectedCreations : vm = 0 /\ vmStarting = k /\ PendingCreations = {})
  /\ [][RejectedCreations # {} =>
         /\ creations' = creations /\ vm' = vm /\ vmStarting' = vmStarting
         /\ vmOpen' = vmOpen
         /\ \A c \in CallerIds :
              callers'[c] # callers[c] =>
                IF callers[c].pc = "await"
                THEN callers[c].on \in RejectedCreations => callers'[c].pc = "failed"
                ELSE callers'[c].pc = "await" /\ callers'[c].on = vmStarting]_vars

\* the first creation rejected, session_shutdown ran, and then a session
\* start, an agent start and a tool call failed with that rejection
C29_Witness ==
  /\ creations[1] = "rejected" /\ creations[2] = "none"
  /\ session.shutdown = "returned" /\ session.callsSince /\ session.creates = 0
  /\ \A c \in CallerIds : callers[c].pc = "failed" /\ callers[c].on = 1
  /\ {callers[c].kind : c \in CallerIds} = {"session_start", "before_agent_start", "tool"}

\* session_shutdown has fired and its handler returned, no callback has
\* called ensureVm since it fired, and every creation and every waiting
\* callback has settled
SettledAfterShutdown ==
  /\ session.shutdown = "returned" /\ ~session.callsSince
  /\ PendingCreations = {}
  /\ \A c \in CallerIds : callers[c].pc # "await"

\* C30: then no VM is open and vm and vmStarting are null
C30_ShutdownClosesVm ==
  SettledAfterShutdown => (vmOpen = {} /\ vm = 0 /\ vmStarting = 0)

\* session_shutdown fired while the creation started by session_start was in
\* progress: the handler returned at once, then the VM came up and stays
C30_LeakReached ==
  /\ SettledAfterShutdown /\ vm = 1 /\ vmStarting = 1 /\ vmOpen = {1}
  /\ \E c \in CallerIds : callers[c].kind = "session_start" /\ callers[c].got = 1

====
